---- MODULE Spec2Model ----
(***************************************************************************)
(* Model of mono-mcp-server: the retrying fetch wrapper (retryFetch), the  *)
(* error classifier (createActionableError), the planning tools            *)
(* (executePlanningTool), the masked updates (update_item,                 *)
(* update_recurring_template) and the server's tool-call handler.          *)
(***************************************************************************)
EXTENDS Integers, Sequences, FiniteSets, TLC

VARIABLES
  cfg,      \* the RetryConfig handed to retryFetch
  req,      \* one record per logical request running through retryFetch
  cls,      \* one call of createActionableError: its input and its result
  plan,     \* one activation of executePlanningTool
  upd,      \* one activation of update_item or update_recurring_template
  hnd       \* one call of the server's tool-call handler

vars == <<cfg, req, cls, plan, upd, hnd>>

(***************************************************************************)
(* Bounds of the model.                                                    *)
(***************************************************************************)
MaxRetries == 2      \* largest maxRetries explored
MaxBaseDelay == 2    \* largest baseDelayMs explored
MaxDelayCap == 3     \* largest maxDelayMs explored

Min(a, b) == IF a <= b THEN a ELSE b

RECURSIVE Pow2(_)
Pow2(n) == IF n <= 0 THEN 1 ELSE 2 * Pow2(n - 1)

(***************************************************************************)
(* retryFetch                                                              *)
(***************************************************************************)

\* DEFAULT_RETRY_CONFIG.retryableStatuses, also the set client.ts configures
DEFAULT_RETRYABLE == {429, 500, 502, 503, 504}

\* the set the tests hand to retryFetch
TEST_RETRYABLE == {503}

\* statuses a fetch call resolves with
Statuses == {200, 400, 429, 500, 503}

\* configs retryFetch is run with; maxRetries comes from parseInt of the
\* environment, so a negative value is possible
RetryConfigs ==
  [maxRetries : (-1)..MaxRetries,
   baseDelayMs : 0..MaxBaseDelay,
   maxDelayMs : 0..MaxDelayCap,
   retryableStatuses : {DEFAULT_RETRYABLE, TEST_RETRYABLE}]

\* `let response: Response;` before the first assignment
NoResponse == [defined |-> FALSE, status |-> 0, ok |-> FALSE]

\* a Response object; Response.ok is true for the statuses 200..299
Response(s) == [defined |-> TRUE, status |-> s, ok |-> (s >= 200 /\ s <= 299)]

\* what a request has done so far, in order
FetchEvent == [type |-> "fetch", status |-> 0, delay |-> 0, cause |-> ""]
ResponseEvent(s) == [type |-> "response", status |-> s, delay |-> 0, cause |-> ""]
RejectEvent(c) == [type |-> "reject", status |-> 0, delay |-> 0, cause |-> c]
SleepEvent(d) == [type |-> "sleep", status |-> 0, delay |-> d, cause |-> ""]

NewRequest(sig) ==
  [pc |-> "idle", attempt |-> 0, response |-> NoResponse, hasSignal |-> sig,
   aborted |-> FALSE, abortedAt |-> 0, trace |-> <<>>, result |-> NoResponse,
   error |-> ""]

\* Math.random(): a value of [0, 1), so exponentialDelay * jitter is a value
\* of [0, exponentialDelay), at millisecond granularity here
JitterValues(exponentialDelay) ==
  IF exponentialDelay <= 0 THEN {0} ELSE 0..(exponentialDelay - 1)

CalculateBackoffUncapped(attempt, c) ==
  JitterValues(c.baseDelayMs * Pow2(attempt))

\* the set of delays calculateBackoff can return
CalculateBackoff(attempt, c) ==
  {Min(c.maxDelayMs, d) : d \in JitterValues(c.baseDelayMs * Pow2(attempt))}

LoopConditionStrict(attempt, c) == attempt < c.maxRetries

\* for (...; attempt <= config.maxRetries; ...)
LoopCondition(attempt, c) == attempt <= c.maxRetries

ShouldReturnOnlyOk(resp, c) == resp.ok

\* if (response.ok || !config.retryableStatuses.includes(response.status))
ShouldReturn(resp, c) == resp.ok \/ resp.status \notin c.retryableStatuses

\* if (attempt === config.maxRetries)
IsLastAttempt(attempt, c) == attempt = c.maxRetries

ShouldSleepAlways(c) == TRUE

\* if (config.baseDelayMs > 0)
ShouldSleep(c) == c.baseDelayMs > 0

\* the head of one loop iteration, up to the await of fetch: either the fetch
\* call is made, or the loop has ended and `return response!` runs
Iterate(rec, a) ==
  IF LoopCondition(a, cfg)
    THEN [rec EXCEPT !.attempt = a, !.pc = "fetching",
                     !.trace = Append(@, FetchEvent)]
    ELSE [rec EXCEPT !.attempt = a, !.pc = "returned", !.result = rec.response]

\* the code after `response = await fetch(...)` resolved with status s
AfterResponse(rec, s) ==
  LET resp == Response(s)
      got == [rec EXCEPT !.response = resp,
                         !.trace = Append(@, ResponseEvent(s))]
  IN IF ShouldReturn(resp, cfg) \/ IsLastAttempt(rec.attempt, cfg)
       THEN {[got EXCEPT !.pc = "returned", !.result = resp]}
       ELSE IF ShouldSleep(cfg)
         THEN {[got EXCEPT !.pc = "sleeping",
                           !.trace = Append(@, SleepEvent(d))] :
                 d \in CalculateBackoff(rec.attempt, cfg)}
         ELSE {Iterate(got, rec.attempt + 1)}

AfterRejectionRetried(rec, cause) ==
  LET got == [rec EXCEPT !.trace = Append(@, RejectEvent(cause))]
  IN IF IsLastAttempt(rec.attempt, cfg)
       THEN [got EXCEPT !.pc = "thrown", !.error = cause]
       ELSE Iterate(got, rec.attempt + 1)

\* `await fetch(...)` rejected: there is no try/catch in retryFetch, so the
\* rejection leaves the function
AfterRejection(rec, cause) ==
  [rec EXCEPT !.pc = "thrown", !.error = cause,
              !.trace = Append(@, RejectEvent(cause))]

\* the ways the pending fetch of a request can reject: the combined signal
\* has fired through the caller's signal, or it fires through the timeout of
\* this attempt, or the connection fails
RejectCauses(rec) ==
  IF rec.hasSignal /\ rec.aborted THEN {"abort"} ELSE {"timeout", "network"}

Done(rec) == rec.pc \in {"returned", "thrown"}

\* retryFetch is called
RetryFetchCalled(r) ==
  /\ r \in DOMAIN req
  /\ req[r].pc = "idle"
  /\ req' = [req EXCEPT ![r] = Iterate(req[r], 0)]
  /\ UNCHANGED <<cfg, cls, plan, upd, hnd>>

FetchResolvesIgnoringSignal(r) ==
  /\ r \in DOMAIN req
  /\ req[r].pc = "fetching"
  /\ \E s \in Statuses :
       \E next \in AfterResponse(req[r], s) :
         req' = [req EXCEPT ![r] = next]
  /\ UNCHANGED <<cfg, cls, plan, upd, hnd>>

\* the pending fetch resolves with a response; once the signal handed to
\* fetch has fired, the fetch can only reject
FetchResolves(r) ==
  /\ r \in DOMAIN req
  /\ req[r].pc = "fetching"
  /\ ~(req[r].hasSignal /\ req[r].aborted)
  /\ \E s \in Statuses :
       \E next \in AfterResponse(req[r], s) :
         req' = [req EXCEPT ![r] = next]
  /\ UNCHANGED <<cfg, cls, plan, upd, hnd>>

\* the pending fetch rejects
FetchRejects(r) ==
  /\ r \in DOMAIN req
  /\ req[r].pc = "fetching"
  /\ \E cause \in RejectCauses(req[r]) :
       req' = [req EXCEPT ![r] = AfterRejection(req[r], cause)]
  /\ UNCHANGED <<cfg, cls, plan, upd, hnd>>

SleepResolvesSharedTimer(r) ==
  /\ r \in DOMAIN req
  /\ req[r].pc = "sleeping"
  /\ req' = [q \in DOMAIN req |->
              IF req[q].pc = "sleeping"
                THEN Iterate(req[q], req[q].attempt + 1) ELSE req[q]]
  /\ UNCHANGED <<cfg, cls, plan, upd, hnd>>

\* the timer of sleep(delay) fires
SleepResolves(r) ==
  /\ r \in DOMAIN req
  /\ req[r].pc = "sleeping"
  /\ req' = [req EXCEPT ![r] = Iterate(req[r], req[r].attempt + 1)]
  /\ UNCHANGED <<cfg, cls, plan, upd, hnd>>

\* the caller's AbortSignal fires
CallerAborts(r) ==
  /\ r \in DOMAIN req
  /\ req[r].hasSignal
  /\ ~req[r].aborted
  /\ ~Done(req[r])
  /\ req' = [req EXCEPT ![r].aborted = TRUE,
                         ![r].abortedAt = Len(req[r].trace)]
  /\ UNCHANGED <<cfg, cls, plan, upd, hnd>>

(***************************************************************************)
(* createActionableError                                                   *)
(***************************************************************************)

\* an optional property of an object: <<>> when it is absent, <<v>> when set
Absent == <<>>
Present(v) == <<v>>

\* String.prototype.includes
Includes(str, sub) ==
  \E i \in 1..(Len(str) - Len(sub) + 1) : SubSeq(str, i, i + Len(sub) - 1) = sub

\* an ActionableError object
ActionableError(error, code, field, suggestion, recovery, valid) ==
  [error |-> error, code |-> code, field |-> field, suggestion |-> suggestion,
   recovery_action |-> recovery, valid_values |-> valid]

STATUS_VALUES == <<"todo", "in_progress", "blocked", "done", "archived", "cancelled">>
PRIORITY_VALUES == <<"low", "medium", "high", "urgent">>
PATTERN_VALUES ==
  <<"daily", "weekly", "biweekly", "monthly", "yearly", "quarterly", "weekdays">>

\* one entry of the validationErrors table
ValidationEntry(key, error, field, suggestion, recovery, valid) ==
  [key |-> key,
   value |-> ActionableError(error, "VALIDATION_ERROR", Present(field),
                             suggestion, Present(recovery), valid)]

\* const validationErrors: Record<string, ActionableError>
validationErrors ==
  { ValidationEntry("title:required field missing", "Title is required", "title",
      "Every task and list must have a title. Provide a non-empty title string.",
      "Add a 'title' field with 1-255 characters.", Absent),
    ValidationEntry("title:must be 255 characters or less", "Title too long", "title",
      "Title exceeds 255 character limit. Shorten it or split into multiple tasks.",
      "Truncate title to 255 characters or create subtasks.", Absent),
    ValidationEntry("status:value is required when status is in update_mask",
      "Status value missing", "status",
      "You included 'status' in update_mask but didn't provide a status value.",
      "Either remove 'status' from update_mask, or provide item.status.",
      Present(STATUS_VALUES)),
    ValidationEntry("status:invalid task status", "Invalid status value", "status",
      "The status value is not recognized.",
      "Use one of the valid status values.", Present(STATUS_VALUES)),
    ValidationEntry("priority:invalid priority level", "Invalid priority value",
      "priority", "The priority value is not recognized.",
      "Use one of the valid priority values.", Present(PRIORITY_VALUES)),
    ValidationEntry("id:invalid ID format", "Invalid UUID format", "id",
      "IDs must be valid UUIDs (e.g., '550e8400-e29b-41d4-a716-446655440000').",
      "Use list_lists or list_items to get valid IDs.", Absent),
    ValidationEntry("recurrence_pattern:invalid recurrence pattern",
      "Invalid recurrence pattern", "recurrence_pattern",
      "The recurrence pattern is not recognized.",
      "Use one of the valid recurrence patterns.", Present(PATTERN_VALUES)),
    ValidationEntry(
      "recurrence_pattern:value is required when recurrence_pattern is in update_mask",
      "Recurrence pattern value missing", "recurrence_pattern",
      "You included 'recurrence_pattern' in update_mask but didn't provide a value.",
      "Either remove from update_mask or provide template.recurrence_pattern.",
      Present(PATTERN_VALUES)),
    ValidationEntry(
      "estimated_duration:invalid duration format (expected ISO 8601 duration like 'PT1H30M')",
      "Invalid duration format", "estimated_duration",
      "Duration must be ISO 8601 format: PT[hours]H[minutes]M",
      "Examples: 'PT30M' (30 min), 'PT1H' (1 hour), 'PT2H30M' (2.5 hours), 'PT1H15M' (1h 15m).",
      Absent),
    ValidationEntry("estimated_duration:duration cannot be empty", "Empty duration",
      "estimated_duration", "Duration was provided but is empty string.",
      "Provide a valid duration like 'PT1H' or remove the field entirely.", Absent),
    ValidationEntry("generation_window_days:must be between 1 and 365",
      "Invalid generation window", "generation_window_days",
      "Generation window must be 1-365 days.",
      "Use a value between 1 (generate 1 day ahead) and 365 (1 year ahead). Default is 30.",
      Absent),
    ValidationEntry("etag:must be a numeric string (e.g., \"1\", \"2\")",
      "Invalid ETag format", "etag",
      "ETag for optimistic concurrency must be a quoted numeric string.",
      "Get the current item first - its etag field contains the correct format.",
      Absent),
    ValidationEntry("recurring_template_id:required for recurring tasks",
      "Missing template ID for recurring task", "recurring_template_id",
      "Tasks with instance_date must reference a recurring template.",
      "Either use create_item without instance_date, or provide recurring_template_id.",
      Absent) }

\* details[0]?.field and details[0]?.issue: absent when details is empty
FirstField(details) == IF Len(details) = 0 THEN Absent ELSE Present(details[1].field)
FirstIssue(details) == IF Len(details) = 0 THEN Absent ELSE Present(details[1].issue)

\* JavaScript truthiness of an optional string
Truthy(opt) == opt # Absent /\ opt[1] # ""

\* a template literal renders an undefined value as the text "undefined"
Render(opt) == IF opt = Absent THEN "undefined" ELSE opt[1]

ValidationRuleGenericOnly(message, field, issue) ==
  ActionableError(message, "VALIDATION_ERROR", field,
    "Validation failed for field '" \o field[1] \o "': " \o Render(issue),
    Present("Check the field value and format."), Absent)

\* the body of `if (code === "VALIDATION_ERROR" && field)`
ValidationRule(message, field, issue) ==
  LET key == field[1] \o ":" \o Render(issue)
      hit == {e \in validationErrors : e.key = key}
  IN IF hit # {}
       THEN (CHOOSE e \in hit : TRUE).value
       ELSE ActionableError(message, "VALIDATION_ERROR", field,
              "Validation failed for field '" \o field[1] \o "': " \o Render(issue),
              Present("Check the field value and format."), Absent)

NotFoundRuleItemFirst(message, context) ==
  IF Includes(message, "item")
    THEN ActionableError("Item not found", "NOT_FOUND", Absent,
           "No item exists with ID '" \o Render(context.params.item_id)
             \o "' in this list.",
           Present("Use list_items with the list_id to see valid item IDs."), Absent)
  ELSE IF Includes(message, "list")
    THEN ActionableError("List not found", "NOT_FOUND", Absent,
           "No list exists with ID '" \o Render(context.params.list_id) \o "'.",
           Present("Use list_lists to see all available lists and their IDs."), Absent)
  ELSE ActionableError("Resource not found", "NOT_FOUND", Absent,
         "The requested resource does not exist.",
         Present("Verify the ID is correct. Use list operations to find valid IDs."),
         Absent)

\* the body of `if (code === "NOT_FOUND")`
NotFoundRule(message, context) ==
  IF Includes(message, "list")
    THEN ActionableError("List not found", "NOT_FOUND", Absent,
           "No list exists with ID '" \o Render(context.params.list_id) \o "'.",
           Present("Use list_lists to see all available lists and their IDs."), Absent)
  ELSE IF Includes(message, "item")
    THEN ActionableError("Item not found", "NOT_FOUND", Absent,
           "No item exists with ID '" \o Render(context.params.item_id)
             \o "' in this list.",
           Present("Use list_items with the list_id to see valid item IDs."), Absent)
  ELSE IF Includes(message, "recurring template")
    THEN ActionableError("Recurring template not found", "NOT_FOUND", Absent,
           "No template exists with ID '" \o Render(context.params.template_id) \o "'.",
           Present("Use list_recurring_templates with the list_id to see valid template IDs."),
           Absent)
  ELSE ActionableError("Resource not found", "NOT_FOUND", Absent,
         "The requested resource does not exist.",
         Present("Verify the ID is correct. Use list operations to find valid IDs."),
         Absent)

\* the body of `if (code === "UNAUTHORIZED")`
UnauthorizedRule ==
  ActionableError("Authentication failed", "UNAUTHORIZED", Absent,
    "The API key is invalid, expired, or missing.",
    Present("Verify MONO_API_KEY environment variable. Keys start with 'sk-'. Contact user if key needs regeneration."),
    Absent)

\* the body of `if (code === "CONFLICT")`
ConflictRule ==
  ActionableError("Resource was modified", "CONFLICT", Absent,
    "Another process updated this item since you last fetched it.",
    Present("Fetch the item again to get the latest etag, then retry your update with the new etag."),
    Absent)

\* the body of `if (code === "INTERNAL_ERROR" || status >= 500)`
InternalRule ==
  ActionableError("Server error", "INTERNAL_ERROR", Absent,
    "The Mono API encountered an internal error.",
    Present("Wait a few seconds and retry. If persistent, the service may be experiencing issues."),
    Absent)

\* the body of `if (code === "INVALID_REQUEST")`
InvalidRequestRule(message) ==
  IF Includes(message, "update_mask")
    THEN ActionableError("Invalid update_mask", "INVALID_REQUEST", Absent,
           "update_mask specifies which fields to update. It cannot be empty.",
           Present("Provide update_mask array with fields to update: ['title', 'status', 'priority', 'due_time', 'tags', 'estimated_duration', 'actual_duration', 'timezone']"),
           Absent)
    ELSE ActionableError(message, "INVALID_REQUEST", Absent,
           "The request format is invalid.",
           Present("Check required parameters and their formats."), Absent)

FallbackRuleEcho(code, message) ==
  ActionableError(IF message = "" THEN "Unknown error" ELSE message,
    IF code = "" THEN "UNKNOWN" ELSE code, Absent, message,
    Present("Check the request parameters and retry."), Absent)

FallbackRuleNoDefault(code, message) ==
  ActionableError(message, code, Absent, "An unexpected error occurred.",
    Present("Check the request parameters and retry."), Absent)

\* the final return: message || "Unknown error", code || "UNKNOWN"
FallbackRule(code, message) ==
  ActionableError(IF message = "" THEN "Unknown error" ELSE message,
    IF code = "" THEN "UNKNOWN" ELSE code, Absent,
    "An unexpected error occurred.",
    Present("Check the request parameters and retry."), Absent)

createActionableErrorStatusFirst(status, apiError, context) ==
  LET code == apiError.error.code
      message == apiError.error.message
      field == FirstField(apiError.error.details)
      issue == FirstIssue(apiError.error.details)
  IN IF code = "INTERNAL_ERROR" \/ status >= 500 THEN InternalRule
     ELSE IF code = "VALIDATION_ERROR" /\ Truthy(field)
       THEN ValidationRule(message, field, issue)
     ELSE IF code = "NOT_FOUND" THEN NotFoundRule(message, context)
     ELSE IF code = "UNAUTHORIZED" THEN UnauthorizedRule
     ELSE IF code = "CONFLICT" THEN ConflictRule
     ELSE IF code = "INVALID_REQUEST" THEN InvalidRequestRule(message)
     ELSE FallbackRule(code, message)

createActionableError(status, apiError, context) ==
  LET code == apiError.error.code
      message == apiError.error.message
      field == FirstField(apiError.error.details)
      issue == FirstIssue(apiError.error.details)
  IN IF code = "VALIDATION_ERROR" /\ Truthy(field)
       THEN ValidationRule(message, field, issue)
     ELSE IF code = "NOT_FOUND" THEN NotFoundRule(message, context)
     ELSE IF code = "UNAUTHORIZED" THEN UnauthorizedRule
     ELSE IF code = "CONFLICT" THEN ConflictRule
     ELSE IF code = "INTERNAL_ERROR" \/ status >= 500 THEN InternalRule
     ELSE IF code = "INVALID_REQUEST" THEN InvalidRequestRule(message)
     ELSE FallbackRule(code, message)

\* the statuses of error responses handed to the classifier
ErrorStatuses == {400, 404, 429, 500, 503}

\* remote error codes: the six the classifier knows, one it does not, and none
RemoteCodes ==
  {"VALIDATION_ERROR", "NOT_FOUND", "UNAUTHORIZED", "CONFLICT", "INTERNAL_ERROR",
   "INVALID_REQUEST", "RATE_LIMITED", ""}

RemoteMessages ==
  {"", "list not found", "item not found in list", "item not found",
   "recurring template not found", "List missing", "update_mask must not be empty",
   "something went wrong"}

DetailFields == {"", "title", "status", "nickname", "title:required field"}

DetailIssues == {"required field missing", "invalid task status", "missing", ""}

\* details: none, or one or two {field, issue} objects
ErrorDetails ==
  LET one == [field : DetailFields, issue : DetailIssues]
  IN {<<>>} \cup {<<d>> : d \in one}
       \cup {<<d, [field |-> "status", issue |-> "invalid task status"]>> : d \in one}

ErrorResponses ==
  [error : [code : RemoteCodes, message : RemoteMessages, details : ErrorDetails]]

\* the params of a RequestContext: the ids the caller gave, if any
ContextParams ==
  {[list_id |-> Present("L1"), item_id |-> Present("I1"), template_id |-> Absent],
   [list_id |-> Absent, item_id |-> Absent, template_id |-> Present("T1")]}

RequestContexts == [operation : {"get_item"}, params : ContextParams]

NoError == ActionableError("", "", Absent, "", Absent, Absent)

\* one call of createActionableError on the drawn input
Classify ==
  /\ cls.pc = "ready"
  /\ cls' = [cls EXCEPT !.pc = "done",
               !.out = createActionableError(cls.status, cls.apiError, cls.context)]
  /\ UNCHANGED <<cfg, req, plan, upd, hnd>>

(***************************************************************************)
(* executePlanningTool: dates, strings and items                           *)
(***************************************************************************)

\* the characters of an ISO-8601 UTC timestamp, in the order of their code
\* units: + - . 0..9 : T Z
ISO_ALPHABET == "+-.0123456789:TZ"

\* the rank of a one-character string among the code units
CharCode(c) == CHOOSE i \in 1..Len(ISO_ALPHABET) : SubSeq(ISO_ALPHABET, i, i) = c

\* a < b on two strings, as JavaScript compares them: by code units, a proper
\* prefix before the longer string
RECURSIVE StrLess(_, _)
StrLess(a, b) ==
  IF Len(b) = 0 THEN FALSE
  ELSE IF Len(a) = 0 THEN TRUE
  ELSE IF SubSeq(a, 1, 1) = SubSeq(b, 1, 1)
    THEN StrLess(SubSeq(a, 2, Len(a)), SubSeq(b, 2, Len(b)))
  ELSE CharCode(SubSeq(a, 1, 1)) < CharCode(SubSeq(b, 1, 1))

\* a <= b and a >= b on two strings
StrLessEq(a, b) == a = b \/ StrLess(a, b)
StrGreaterEq(a, b) == a = b \/ StrLess(b, a)

DigitChar(d) == SubSeq("0123456789", d + 1, d + 1)
DigitValue(c) == (CHOOSE i \in 1..10 : SubSeq("0123456789", i, i) = c) - 1
IsDigit(c) == \E i \in 1..10 : SubSeq("0123456789", i, i) = c

Pad2(n) == DigitChar(n \div 10) \o DigitChar(n % 10)
Pad3(n) == DigitChar(n \div 100) \o Pad2(n % 100)

\* instants are milliseconds since 2025-01-01T00:00:00.000Z, and stay within
\* January 2025
MS_PER_SECOND == 1000
MS_PER_DAY == 24 * 60 * 60 * 1000

\* Date.prototype.toISOString: YYYY-MM-DDTHH:mm:ss.sssZ
ToISOString(ms) ==
  LET day == ms \div MS_PER_DAY
      inDay == ms % MS_PER_DAY
      hour == inDay \div (60 * 60 * MS_PER_SECOND)
      minute == (inDay \div (60 * MS_PER_SECOND)) % 60
      second == (inDay \div MS_PER_SECOND) % 60
  IN "2025-01-" \o Pad2(day + 1) \o "T" \o Pad2(hour) \o ":" \o Pad2(minute)
       \o ":" \o Pad2(second) \o "." \o Pad3(inDay % MS_PER_SECOND) \o "Z"

Num2(str, i) == 10 * DigitValue(SubSeq(str, i, i)) + DigitValue(SubSeq(str, i + 1, i + 1))

\* new Date(str).getTime() for a timestamp 2025-01-DDTHH:mm:ssZ or
\* 2025-01-DDTHH:mm:ss.sssZ
DateGetTime(str) ==
  LET whole == (Num2(str, 9) - 1) * MS_PER_DAY
                 + ((Num2(str, 12) * 60 + Num2(str, 15)) * 60 + Num2(str, 18))
                     * MS_PER_SECOND
  IN IF Len(str) = 24
       THEN whole + 100 * DigitValue(SubSeq(str, 21, 21)) + Num2(str, 22)
       ELSE whole

\* a TodoItem as the remote API returns it; priority, due_time and
\* estimated_duration are optional
TodoItem(id, priority, due, tags, duration) ==
  [id |-> id, priority |-> priority, due_time |-> due, tags |-> tags,
   estimated_duration |-> duration]

\* JavaScript truthiness of an optional number: absent and 0 are falsy
TruthyNum(opt) == opt # Absent /\ opt[1] # 0

\* const priorityOrder = { urgent: 0, high: 1, medium: 2, low: 3 }
priorityOrder(p) ==
  CASE p = "urgent" -> 0
    [] p = "high" -> 1
    [] p = "medium" -> 2
    [] p = "low" -> 3

\* priorityOrder[a.priority || "medium"]
PrioOf(item) ==
  priorityOrder(IF Truthy(item.priority) THEN item.priority[1] ELSE "medium")

\* new Date(a.due_time).getTime() - new Date(b.due_time).getTime()
DueDiff(a, b) == DateGetTime(a.due_time[1]) - DateGetTime(b.due_time[1])

ComparePlannablePriorityOnly(a, b) ==
  IF PrioOf(a) # PrioOf(b) THEN PrioOf(a) - PrioOf(b)
  ELSE IF Truthy(a.due_time) /\ Truthy(b.due_time) THEN DueDiff(a, b)
  ELSE 0

\* the comparator of get_plannable_tasks
ComparePlannable(a, b) ==
  IF PrioOf(a) # PrioOf(b) THEN PrioOf(a) - PrioOf(b)
  ELSE IF Truthy(a.due_time) /\ Truthy(b.due_time) THEN DueDiff(a, b)
  ELSE IF Truthy(a.due_time) THEN -1
  ELSE IF Truthy(b.due_time) THEN 1
  ELSE 0

\* the comparator of get_tasks_by_tag
CompareByTag(a, b) ==
  IF PrioOf(a) # PrioOf(b) THEN PrioOf(a) - PrioOf(b)
  ELSE IF Truthy(a.due_time) /\ Truthy(b.due_time) THEN DueDiff(a, b)
  ELSE 0

\* the comparator of get_overdue_tasks and get_tasks_due_soon
CompareDue(a, b) ==
  IF ~Truthy(a.due_time) \/ ~Truthy(b.due_time) THEN 0 ELSE DueDiff(a, b)

Compare(kind, a, b) ==
  CASE kind = "plannable" -> ComparePlannable(a, b)
    [] kind = "by_tag" -> CompareByTag(a, b)
    [] kind = "due" -> CompareDue(a, b)

Reverse(arr) == [i \in 1..Len(arr) |-> arr[Len(arr) + 1 - i]]

\* Array.prototype.sort of Node.js on a short array: the first run is found
\* (and reversed when it descends strictly), then the rest is inserted by
\* binary search; indices are 0-based as in the engine
RECURSIVE InsertionPoint(_, _, _, _, _)
InsertionPoint(arr, pivot, left, right, kind) ==
  IF left >= right THEN left
  ELSE LET mid == left + ((right - left) \div 2)
       IN IF Compare(kind, pivot, arr[mid + 1]) < 0
            THEN InsertionPoint(arr, pivot, left, mid, kind)
            ELSE InsertionPoint(arr, pivot, mid + 1, right, kind)

RECURSIVE BinaryInsertionSort(_, _, _)
BinaryInsertionSort(arr, start, kind) ==
  IF start >= Len(arr) THEN arr
  ELSE LET pivot == arr[start + 1]
           at == InsertionPoint(arr, pivot, 0, start, kind)
       IN BinaryInsertionSort(
            SubSeq(arr, 1, at) \o <<pivot>> \o SubSeq(arr, at + 1, start)
              \o SubSeq(arr, start + 2, Len(arr)),
            start + 1, kind)

\* the end of the run that starts the array: the first index from idx on whose
\* element breaks the order of the run, or the length of the array
RunEnd(arr, idx, descending, kind) ==
  LET breaks(i) == LET order == Compare(kind, arr[i + 1], arr[i])
                   IN (descending /\ order >= 0) \/ (~descending /\ order < 0)
      stops == {i \in idx..(Len(arr) - 1) : breaks(i)}
  IN IF idx >= Len(arr) THEN idx
     ELSE IF stops = {} THEN Len(arr)
     ELSE CHOOSE i \in stops : \A j \in stops : i <= j

ArraySort(arr, kind) ==
  IF Len(arr) < 2 THEN arr
  ELSE LET descending == Compare(kind, arr[2], arr[1]) < 0
           run == RunEnd(arr, 2, descending, kind)
           made == IF descending
                     THEN Reverse(SubSeq(arr, 1, run)) \o SubSeq(arr, run + 1, Len(arr))
                     ELSE arr
       IN BinaryInsertionSort(made, run, kind)

\* Array.prototype.slice(0, n): a negative n counts from the end
Slice(arr, n) ==
  IF n >= 0 THEN SubSeq(arr, 1, Min(n, Len(arr)))
  ELSE SubSeq(arr, 1, IF Len(arr) + n > 0 THEN Len(arr) + n ELSE 0)

\* item.due_time && item.due_time < now
IsOverdueAt(item, nowISO) ==
  Truthy(item.due_time) /\ StrLess(item.due_time[1], nowISO)

\* item.due_time && item.due_time >= nowISO && item.due_time <= future
IsDueSoonAt(item, nowISO, future) ==
  /\ Truthy(item.due_time)
  /\ StrGreaterEq(item.due_time[1], nowISO)
  /\ StrLessEq(item.due_time[1], future)

CharAt(str, i) == IF i >= 1 /\ i <= Len(str) THEN SubSeq(str, i, i) ELSE ""

RECURSIVE DigitRun(_, _)
DigitRun(str, i) ==
  IF CharAt(str, i) # "" /\ IsDigit(CharAt(str, i)) THEN 1 + DigitRun(str, i + 1) ELSE 0

\* parseInt of a run of digits
RECURSIVE ParseInt(_)
ParseInt(digits) ==
  IF Len(digits) = 0 THEN 0
  ELSE 10 * ParseInt(SubSeq(digits, 1, Len(digits) - 1))
         + DigitValue(SubSeq(digits, Len(digits), Len(digits)))

\* one optional group (?:(\d+)U)? of the pattern, tried at position i
DurationGroup(str, i, unit) ==
  LET n == DigitRun(str, i)
  IN IF n > 0 /\ CharAt(str, i + n) = unit
       THEN [value |-> ParseInt(SubSeq(str, i, i + n - 1)), next |-> i + n + 1]
       ELSE [value |-> 0, next |-> i]

parseDurationHoursOnly(duration) ==
  IF ~Truthy(duration) THEN 0
  ELSE LET str == duration[1]
           starts == {i \in 1..(Len(str) - 1) : SubSeq(str, i, i + 1) = "PT"}
       IN IF starts = {} THEN 0
          ELSE LET at == CHOOSE i \in starts : \A j \in starts : i <= j
               IN 60 * DurationGroup(str, at + 2, "H").value

\* parseDurationToHours, in minutes: 60 * (hours + minutes / 60); the pattern
\* /PT(?:(\d+)H)?(?:(\d+)M)?/ is not anchored and matches at the first "PT"
parseDurationToHours(duration) ==
  IF ~Truthy(duration) THEN 0
  ELSE LET str == duration[1]
           starts == {i \in 1..(Len(str) - 1) : SubSeq(str, i, i + 1) = "PT"}
       IN IF starts = {} THEN 0
          ELSE LET at == CHOOSE i \in starts : \A j \in starts : i <= j
                   hours == DurationGroup(str, at + 2, "H")
                   minutes == DurationGroup(str, hours.next, "M")
               IN 60 * hours.value + minutes.value

\* the sum of f over the elements of a sequence, f given as a sequence too
RECURSIVE SumSeq(_)
SumSeq(nums) ==
  IF Len(nums) = 0 THEN 0
  ELSE IF Len(nums) = 1 THEN nums[1]
  ELSE LET half == Len(nums) \div 2
       IN SumSeq(SubSeq(nums, 1, half)) + SumSeq(SubSeq(nums, half + 1, Len(nums)))

\* how often tag t occurs in the tags of an item
TagCount(item, t) == Len(SelectSeq(item.tags, LAMBDA x : x = t))

\* Math.round(totalHours * 10) / 10, in tenths of an hour, from minutes
RoundToTenths(minutes) == (minutes + 3) \div 6

\* the summary get_workload_summary computes over allItems; hours are carried
\* in minutes, total_hours in tenths of an hour
WorkloadSummary(items, now) ==
  LET nowISO == ToISOString(now)
      oneWeekFromNow == ToISOString(now + 7 * MS_PER_DAY)
      n == Len(items)
      prio(i) == IF Truthy(items[i].priority) THEN items[i].priority[1] ELSE "medium"
      hours(i) == parseDurationToHours(items[i].estimated_duration)
      tags == UNION {{items[i].tags[j] : j \in 1..Len(items[i].tags)} : i \in 1..n}
  IN [total_tasks |-> n,
      total_hours |-> RoundToTenths(SumSeq([i \in 1..n |-> hours(i)])),
      overdue_count |->
        Cardinality({i \in 1..n : IsOverdueAt(items[i], nowISO)}),
      due_this_week_count |->
        Cardinality({i \in 1..n : IsDueSoonAt(items[i], nowISO, oneWeekFromNow)}),
      by_priority |->
        [p \in {"urgent", "high", "medium", "low"} |->
           [count |-> Cardinality({i \in 1..n : prio(i) = p}),
            hours |-> SumSeq([i \in 1..n |-> IF prio(i) = p THEN hours(i) ELSE 0])]],
      by_tag |->
        [t \in tags |->
           [count |-> SumSeq([i \in 1..n |-> TagCount(items[i], t)]),
            hours |-> SumSeq([i \in 1..n |-> TagCount(items[i], t) * hours(i)])]]]

(***************************************************************************)
(* executePlanningTool: the tools                                          *)
(***************************************************************************)

MaxLists == 3   \* largest number of lists the catalog returns

PlanningTools ==
  {"get_plannable_tasks", "get_overdue_tasks", "get_tasks_due_soon",
   "get_tasks_by_tag", "get_workload_summary"}

PlanArgs(list_id, include_blocked, max_items, days_ahead, tag) ==
  [list_id |-> list_id, include_blocked |-> include_blocked,
   max_items |-> max_items, days_ahead |-> days_ahead, tag |-> tag]

ListIdArgs == {Absent, Present("L1")}

\* the arguments each tool is called with
ArgsOf(tool) ==
  CASE tool = "get_plannable_tasks" ->
         {PlanArgs(l, b, m, Absent, Absent) :
            l \in ListIdArgs, b \in {Absent, Present(FALSE)},
            m \in {Absent, Present(1), Present(0), Present(-1)}}
    [] tool = "get_tasks_due_soon" ->
         {PlanArgs(l, Absent, Absent, d, Absent) :
            l \in ListIdArgs, d \in {Absent, Present(1), Present(0)}}
    [] tool = "get_tasks_by_tag" ->
         {PlanArgs(l, Absent, Absent, Absent, Present("work")) : l \in ListIdArgs}
    [] OTHER ->
         {PlanArgs(l, Absent, Absent, Absent, Absent) : l \in ListIdArgs}

\* the instants `new Date()` gives when a tool starts
NowInstants == {2 * MS_PER_DAY, 2 * MS_PER_DAY + 500}

ItemA == TodoItem("a", Present("low"), Absent, <<"work">>, Present("PT1H"))
ItemB == TodoItem("b", Present("high"), Present("2025-01-01T00:00:00Z"), <<>>,
                  Present("PT30M"))
ItemC == TodoItem("c", Absent, Present("2025-01-03T00:00:00Z"), <<"work", "home">>,
                  Absent)
ItemD == TodoItem("d", Present("urgent"), Present("2025-01-04T00:00:00.000Z"),
                  <<"home">>, Present("PT2H15M"))
ItemE == TodoItem("e", Absent, Absent, <<>>, Present("P1D"))
ItemF == TodoItem("f", Present("high"), Present("2025-01-04T00:00:00Z"), <<"work">>,
                  Absent)
ItemG == TodoItem("g", Present("low"), Present("2025-01-04T00:00:01.000Z"), <<>>,
                  Present("PT45M"))
ItemH == TodoItem("h", Present("medium"), Absent, <<"work">>, Present("PT15M"))
ItemI == TodoItem("i", Present("medium"), Present("2025-01-10T00:00:00Z"),
                  <<"home", "home">>, Present("PT1H"))

\* the pages of items the remote API answers a listItems call with
ItemPages ==
  {<<>>, <<ItemA>>, <<ItemC, ItemB>>, <<ItemE, ItemD, ItemA>>, <<ItemH, ItemG, ItemF>>}

\* the catalogs the remote API answers a listLists call with
Catalogs ==
  {[i \in 1..n |-> [id |-> "L" \o DigitChar(i)]] : n \in 0..MaxLists}

\* the page size the remote API applies to a call that names none
DEFAULT_PAGE_SIZE == 25

\* the page size the fan-out asks listItems for
FAN_OUT_PAGE_SIZE == 100

\* a catalog that does not fit in one page of listLists({})
LongCatalog == [i \in 1..(DEFAULT_PAGE_SIZE + 1) |-> [id |-> "M" \o Pad2(i)]]

\* a list that holds more items than one page of the fan-out
LongList ==
  [i \in 1..(FAN_OUT_PAGE_SIZE + 1) |->
     TodoItem("n" \o Pad3(i), Absent, Absent, <<"work">>, Absent)]

\* what the remote API holds when a tool runs: the lists of the catalog and
\* the status-matching items of each list
RemoteWorlds ==
  UNION {{[lists |-> c, items |-> f] :
            f \in [{c[i].id : i \in DOMAIN c} -> ItemPages]} : c \in Catalogs}
  \cup {[lists |-> LongCatalog,
         items |-> [id \in {LongCatalog[i].id : i \in DOMAIN LongCatalog} |->
                      IF id = LongCatalog[Len(LongCatalog)].id
                        THEN <<ItemD>> ELSE <<>>]],
        [lists |-> <<[id |-> "L1"]>>, items |-> [id \in {"L1"} |-> LongList]],
        [lists |-> <<[id |-> "L1"]>>, items |-> [id \in {"L1"} |-> <<ItemI, ItemB>>]]}

NoWorld == [lists |-> <<>>, items |-> <<>>]

\* one page of a listing: the first page_size entries, and a next_page_token
\* when entries are left
PageOf(entries, page_size) ==
  [entries |-> SubSeq(entries, 1, Min(page_size, Len(entries))),
   next_page_token |-> IF Len(entries) > page_size THEN Present("next") ELSE Absent]

\* the page size of a call: the one it names, or the default of the remote API
PageSizeOf(call) ==
  IF call.page_size = Absent THEN DEFAULT_PAGE_SIZE ELSE call.page_size[1]

\* the items of a list that match the tags filter of a listItems call
MatchingItems(items, call) ==
  IF call.tags = Absent THEN items
  ELSE SelectSeq(items, LAMBDA it : \E k \in DOMAIN it.tags : it.tags[k] = call.tags[1][1])

\* the key the remote API orders the items of a listItems call by: the due
\* instant for sort_by due_time (items without due time last), the priority
\* from urgent down for sort_by priority with sort_dir desc (items without
\* priority last); the stored order when the call names no sort
ServerKey(item, call) ==
  CASE call.sort_by = Present("due_time asc") ->
         IF Truthy(item.due_time) THEN DateGetTime(item.due_time[1]) ELSE 24 * MS_PER_DAY
    [] call.sort_by = Present("priority desc") ->
         IF Truthy(item.priority) THEN priorityOrder(item.priority[1]) ELSE 4
    [] OTHER -> 0

\* the items in the order of the call: ascending by key, equal keys in the
\* stored order
ServerSorted(items, call) ==
  LET n == Len(items)
      before(j, i) ==
        \/ ServerKey(items[j], call) < ServerKey(items[i], call)
        \/ ServerKey(items[j], call) = ServerKey(items[i], call) /\ j < i
      rank(i) == 1 + Cardinality({j \in 1..n : before(j, i)})
  IN IF call.sort_by = Absent THEN items
     ELSE [p \in 1..n |-> items[CHOOSE i \in 1..n : rank(i) = p]]

\* the page sizes the remote API accepts: 1-100
ValidPageSize(call) == PageSizeOf(call) >= 1 /\ PageSizeOf(call) <= FAN_OUT_PAGE_SIZE

\* the response of the remote API to the pending call
ResponseTo(world, call) ==
  IF call.op = "listLists" THEN PageOf(world.lists, PageSizeOf(call))
  ELSE PageOf(ServerSorted(MatchingItems(world.items[call.list_id], call), call),
              PageSizeOf(call))

\* the error responses the remote API answers a call with
PlanErrors ==
  {[status |-> 404,
    apiError |-> [error |-> [code |-> "NOT_FOUND", message |-> "list not found",
                             details |-> <<>>]]],
   [status |-> 503,
    apiError |-> [error |-> [code |-> "INTERNAL_ERROR", message |-> "unavailable",
                             details |-> <<>>]]],
   [status |-> 429,
    apiError |-> [error |-> [code |-> "RATE_LIMITED", message |-> "slow down",
                             details |-> <<>>]]]}

\* no result yet
NoResult == [kind |-> "none", items |-> <<>>, next_page_token |-> Absent,
             summary |-> Absent]

ItemsResult(items) ==
  [kind |-> "items", items |-> items, next_page_token |-> Absent, summary |-> Absent]

\* `return data`: the body of the response as it came
DataResult(items, token) ==
  [kind |-> "data", items |-> items, next_page_token |-> token, summary |-> Absent]

SummaryResult(summary) ==
  [kind |-> "summary", items |-> <<>>, next_page_token |-> Absent,
   summary |-> Present(summary)]

\* the statuses a tool asks for
StatusesOf(tool, args) ==
  IF tool = "get_plannable_tasks" /\ args.include_blocked = Present(FALSE)
    THEN <<"todo", "in_progress">>
    ELSE <<"todo", "in_progress", "blocked">>

\* one remote call, as logged: outcome is "pending", "ok" or "error"
ListListsCall ==
  [op |-> "listLists", list_id |-> "", status |-> <<>>, tags |-> Absent,
   sort_by |-> Absent, page_size |-> Absent, outcome |-> "pending",
   error |-> Absent]

\* the listItems call of the fan-out over all lists
FanOutItemsCall(tool, args, list_id) ==
  [op |-> "listItems", list_id |-> list_id, status |-> StatusesOf(tool, args),
   tags |-> IF tool = "get_tasks_by_tag" THEN Present(<<args.tag[1]>>) ELSE Absent,
   sort_by |-> Absent, page_size |-> Present(FAN_OUT_PAGE_SIZE),
   outcome |-> "pending", error |-> Absent]

\* the listItems call of a tool scoped to args.list_id
ScopedItemsCall(tool, args) ==
  [op |-> "listItems", list_id |-> args.list_id[1],
   status |-> StatusesOf(tool, args),
   tags |-> IF tool = "get_tasks_by_tag" THEN Present(<<args.tag[1]>>) ELSE Absent,
   sort_by |->
     CASE tool \in {"get_plannable_tasks", "get_tasks_by_tag"} -> Present("priority desc")
       [] tool \in {"get_overdue_tasks", "get_tasks_due_soon"} -> Present("due_time asc")
       [] OTHER -> Absent,
   page_size |->
     IF tool = "get_plannable_tasks"
       THEN Present(IF TruthyNum(args.max_items) THEN args.max_items[1] ELSE 50)
       ELSE Present(100),
   outcome |-> "pending", error |-> Absent]

\* the RequestContext a tool hands to createActionableError
PlanContext(tool, args) ==
  [operation |-> tool,
   params |-> [list_id |-> args.list_id, item_id |-> Absent, template_id |-> Absent]]

\* (args.days_ahead as number) || 7
DaysAhead(args) == IF TruthyNum(args.days_ahead) THEN args.days_ahead[1] ELSE 7

\* now + daysAhead days, as an ISO string
FutureISO(args, now) == ToISOString(now + DaysAhead(args) * MS_PER_DAY)

\* the items of one response that a tool keeps
KeptItems(tool, args, now, items) ==
  CASE tool = "get_overdue_tasks" ->
         SelectSeq(items, LAMBDA it : IsOverdueAt(it, ToISOString(now)))
    [] tool = "get_tasks_due_soon" ->
         SelectSeq(items,
                   LAMBDA it : IsDueSoonAt(it, ToISOString(now), FutureISO(args, now)))
    [] OTHER -> items

\* what a tool returns once every list has been retrieved
FanOutResult(tool, args, now, allItems) ==
  CASE tool = "get_plannable_tasks" ->
         ItemsResult(Slice(ArraySort(allItems, "plannable"),
                           IF TruthyNum(args.max_items) THEN args.max_items[1] ELSE 50))
    [] tool = "get_overdue_tasks" -> ItemsResult(ArraySort(allItems, "due"))
    [] tool = "get_tasks_due_soon" -> ItemsResult(ArraySort(allItems, "due"))
    [] tool = "get_tasks_by_tag" -> ItemsResult(ArraySort(allItems, "by_tag"))
    [] tool = "get_workload_summary" -> SummaryResult(WorkloadSummary(allItems, now))

\* what a tool scoped to one list returns from the response
ScopedResult(tool, args, now, items, token) ==
  CASE tool \in {"get_plannable_tasks", "get_tasks_by_tag"} -> DataResult(items, token)
    [] tool \in {"get_overdue_tasks", "get_tasks_due_soon"} ->
         ItemsResult(KeptItems(tool, args, now, items))
    [] tool = "get_workload_summary" -> SummaryResult(WorkloadSummary(items, now))

\* one activation of executePlanningTool
NewPlan(tool, args, now) ==
  [pc |-> "ready", tool |-> tool, args |-> args, now |-> now, lists |-> <<>>,
   idx |-> 0, allItems |-> <<>>, calls |-> <<>>, result |-> NoResult,
   thrown |-> NoError, remote |-> NoWorld]

\* the pending call has been answered
Answered(p, outcome, error) ==
  [p EXCEPT !.calls[Len(p.calls)].outcome = outcome,
            !.calls[Len(p.calls)].error = error]

\* throw createActionableError(response.status, error, {operation, params: args})
ThrowClassified(p, e) ==
  [Answered(p, "error", Present(e)) EXCEPT
     !.pc = "thrown",
     !.thrown = createActionableError(e.status, e.apiError, PlanContext(p.tool, p.args))]

NextListFromTheEnd(p, k) ==
  IF k <= Len(p.lists)
    THEN [p EXCEPT !.pc = "listItems", !.idx = k,
                   !.calls = Append(@, FanOutItemsCall(p.tool, p.args,
                                         p.lists[Len(p.lists) + 1 - k].id))]
    ELSE [p EXCEPT !.pc = "returned",
                   !.result = FanOutResult(p.tool, p.args, p.now, p.allItems)]

\* `for (const list of listsData.lists)` at its k-th list: the next listItems
\* call is issued, or the loop is over and the tool returns
NextList(p, k) ==
  IF k <= Len(p.lists)
    THEN [p EXCEPT !.pc = "listItems", !.idx = k,
                   !.calls = Append(@, FanOutItemsCall(p.tool, p.args, p.lists[k].id))]
    ELSE [p EXCEPT !.pc = "returned",
                   !.result = FanOutResult(p.tool, p.args, p.now, p.allItems)]

OnItemsErrorSkipList(p, e) == NextList(Answered(p, "error", Present(e)), p.idx + 1)

\* `if (itemsError) throw createActionableError(...)` inside the loop
OnItemsError(p, e) == ThrowClassified(p, e)

\* executePlanningTool is called: `now` is taken, and the first call is issued
ExecutePlanningTool ==
  /\ plan.pc = "ready"
  /\ plan' = IF Truthy(plan.args.list_id)
               THEN [plan EXCEPT !.pc = "scopedItems",
                                 !.calls = <<ScopedItemsCall(plan.tool, plan.args)>>]
               ELSE [plan EXCEPT !.pc = "listLists", !.calls = <<ListListsCall>>]
  /\ UNCHANGED <<cfg, req, cls, upd, hnd>>

\* listLists resolves with the catalog
ListListsSucceeds ==
  /\ plan.pc = "listLists"
  /\ LET page == ResponseTo(plan.remote, plan.calls[Len(plan.calls)])
     IN  plan' = NextList([Answered(plan, "ok", Absent) EXCEPT
                             !.lists = page.entries], 1)
  /\ UNCHANGED <<cfg, req, cls, upd, hnd>>

\* listLists resolves with an error response
ListListsFails ==
  /\ plan.pc = "listLists"
  /\ \E e \in PlanErrors : plan' = ThrowClassified(plan, e)
  /\ UNCHANGED <<cfg, req, cls, upd, hnd>>

\* listItems of the list at plan.idx resolves with a page of items
ListItemsSucceeds ==
  /\ plan.pc = "listItems"
  /\ LET page == ResponseTo(plan.remote, plan.calls[Len(plan.calls)])
     IN  plan' = NextList(
                   [Answered(plan, "ok", Absent) EXCEPT
                      !.allItems = @ \o KeptItems(plan.tool, plan.args, plan.now,
                                                  page.entries)],
                   plan.idx + 1)
  /\ UNCHANGED <<cfg, req, cls, upd, hnd>>

\* listItems of the list at plan.idx resolves with an error response
ListItemsFails ==
  /\ plan.pc = "listItems"
  /\ \E e \in PlanErrors : plan' = OnItemsError(plan, e)
  /\ UNCHANGED <<cfg, req, cls, upd, hnd>>

\* the one listItems call of a scoped tool resolves with a page of items
ScopedItemsSucceeds ==
  /\ plan.pc = "scopedItems"
  /\ plan.args.list_id[1] \in DOMAIN plan.remote.items
  /\ ValidPageSize(plan.calls[Len(plan.calls)])
  /\ LET page == ResponseTo(plan.remote, plan.calls[Len(plan.calls)])
     IN  plan' = [Answered(plan, "ok", Absent) EXCEPT
                    !.pc = "returned",
                    !.result = ScopedResult(plan.tool, plan.args, plan.now,
                                            page.entries, page.next_page_token)]
  /\ UNCHANGED <<cfg, req, cls, upd, hnd>>

\* the one listItems call of a scoped tool resolves with an error response
ScopedItemsFails ==
  /\ plan.pc = "scopedItems"
  /\ \E e \in PlanErrors : plan' = ThrowClassified(plan, e)
  /\ UNCHANGED <<cfg, req, cls, upd, hnd>>

\* no planning tool is running
PlanIdle == NewPlan("", PlanArgs(Absent, Absent, Absent, Absent, Absent), 0)

(***************************************************************************)
(* update_item and update_recurring_template                               *)
(***************************************************************************)

UpdateTools == {"update_item", "update_recurring_template"}

\* the names an argument object of the two tools can hold
ArgNames == {"list_id", "item_id", "template_id", "update_mask", "title", "status"}

\* the update masks a caller hands over: absent, empty, naming fields of the
\* resource, naming arguments that are no fields, naming a field not given
UpdateMasks ==
  {Absent, Present(<<>>), Present(<<"title">>), Present(<<"title", "status">>),
   Present(<<"status", "list_id">>), Present(<<"item_id", "update_mask">>),
   Present(<<"template_id", "title">>), Present(<<"priority">>)}

\* the argument objects: a name that is not given is undefined
UpdateArgs ==
  {[n \in ArgNames |->
      CASE n = "list_id" -> Present("L1")
        [] n = "item_id" -> i
        [] n = "template_id" -> t
        [] n = "update_mask" -> m
        [] n = "title" -> ti
        [] n = "status" -> st] :
     i \in {Absent, Present("I1")}, t \in {Absent, Present("T1")},
     m \in UpdateMasks, ti \in {Absent, Present("New title")},
     st \in {Absent, Present("done")}}

\* const { a, b, c, ...fields } = args: the arguments without the named ones
RestOf(args, removed) == [n \in (DOMAIN args) \ removed |-> args[n]]

\* the arguments each tool takes out of args before it reads the fields
RoutingKeys(tool) ==
  IF tool = "update_item" THEN {"list_id", "item_id", "update_mask"}
  ELSE {"list_id", "template_id", "update_mask"}

\* the fields the mask names whose value in the object is not undefined
MaskedNames(obj, updateMask) ==
  {updateMask[k] : k \in {j \in DOMAIN updateMask :
                            updateMask[j] \in DOMAIN obj /\ obj[updateMask[j]] # Absent}}

extractUpdateFieldsUnmasked(args, updateMask) ==
  [n \in {x \in DOMAIN args : args[x] # Absent} |-> args[n][1]]

\* extractUpdateFields(args, updateMask)
extractUpdateFields(args, updateMask) ==
  [n \in MaskedNames(args, updateMask) |-> args[n][1]]

\* the loop of update_item over update_mask that fills `item`
UpdateItemFields(fields, update_mask) ==
  [n \in MaskedNames(fields, update_mask) |-> fields[n][1]]

\* the request updateItem / updateRecurringTemplate sends
UpdateRequest(op, args, update_mask, body) ==
  [op |-> op, list_id |-> args["list_id"],
   resource_id |-> IF op = "updateItem" THEN args["item_id"] ELSE args["template_id"],
   update_mask |-> update_mask, fields |-> body]

\* `for (const field of update_mask)` on an update_mask that is undefined
NotIterable ==
  [kind |-> "TypeError", message |-> "update_mask is not iterable",
   actionable |-> NoError]

NothingThrown == [kind |-> "", message |-> "", actionable |-> NoError]

\* the RequestContext the two tools hand to createActionableError
UpdateContext(tool, args) ==
  [operation |-> tool,
   params |-> [list_id |-> args["list_id"], item_id |-> args["item_id"],
               template_id |-> args["template_id"]]]

\* one activation of a tool
NewUpdate(tool, args) ==
  [pc |-> "ready", tool |-> tool, args |-> args, calls |-> <<>>,
   thrown |-> NothingThrown]

\* no update tool is running
UpdIdle == [pc |-> "idle", tool |-> "", args |-> <<>>, calls |-> <<>>,
            thrown |-> NothingThrown]

\* executeItemTool("update_item", args) up to its remote call
ExecuteUpdateItem ==
  /\ upd.pc = "ready" /\ upd.tool = "update_item"
  /\ LET update_mask == upd.args["update_mask"]
         fields == RestOf(upd.args, {"list_id", "item_id", "update_mask"})
     IN upd' = IF update_mask = Absent
                 THEN [upd EXCEPT !.pc = "thrown", !.thrown = NotIterable]
                 ELSE [upd EXCEPT
                         !.pc = "updating",
                         !.calls = <<UpdateRequest("updateItem", upd.args, update_mask[1],
                                       UpdateItemFields(fields, update_mask[1]))>>]
  /\ UNCHANGED <<cfg, req, cls, plan, hnd>>

\* executeRecurringTool("update_recurring_template", args) up to its remote call
ExecuteUpdateRecurringTemplate ==
  /\ upd.pc = "ready" /\ upd.tool = "update_recurring_template"
  /\ LET update_mask == upd.args["update_mask"]
         fields == RestOf(upd.args, {"list_id", "template_id", "update_mask"})
     IN upd' = IF update_mask = Absent
                 THEN [upd EXCEPT !.pc = "thrown", !.thrown = NotIterable]
                 ELSE [upd EXCEPT
                         !.pc = "updating",
                         !.calls = <<UpdateRequest("updateRecurringTemplate", upd.args,
                                       update_mask[1],
                                       extractUpdateFields(fields, update_mask[1]))>>]
  /\ UNCHANGED <<cfg, req, cls, plan, hnd>>

\* the remote call resolves with data: `return data`
UpdateSucceeds ==
  /\ upd.pc = "updating"
  /\ upd' = [upd EXCEPT !.pc = "returned"]
  /\ UNCHANGED <<cfg, req, cls, plan, hnd>>

\* the remote call resolves with an error response: the classified error is
\* thrown
UpdateFails ==
  /\ upd.pc = "updating"
  /\ \E e \in PlanErrors :
       upd' = [upd EXCEPT
                 !.pc = "thrown",
                 !.thrown = [kind |-> "ActionableError", message |-> "",
                             actionable |->
                               createActionableError(e.status, e.apiError,
                                 UpdateContext(upd.tool, upd.args))]]
  /\ UNCHANGED <<cfg, req, cls, plan, hnd>>

\* the requests of the specification Spec: one logical request
(***************************************************************************)
(* The tool-call handler of the server                                     *)
(***************************************************************************)

\* names a caller may pass: three tools of the catalog and one unknown name
ToolNames == {"get_item", "update_item", "get_plannable_tasks", "no_such_tool"}

\* a value thrown by executeTool, by what the handler reads of it: whether
\* it is an object, whether it is an instance of Error, its properties
\* (Absent = the property is not in the object) and String(value)
ThrownValue(origin, isError, message, code, error, field, suggestion, recovery, valid) ==
  [origin |-> origin, isObject |-> TRUE, instanceOfError |-> isError,
   message |-> message, code |-> code, error |-> error, field |-> field,
   suggestion |-> suggestion, recovery_action |-> recovery,
   valid_values |-> valid]

\* `throw createActionableError(response.status, error, context)`
ThrownByClassifier(ae) ==
  ThrownValue("classifier", FALSE, Absent, Present(ae.code), Present(ae.error),
              ae.field, Present(ae.suggestion), ae.recovery_action,
              ae.valid_values)

\* `throw new Error(...)`, and the TypeError of the runtime
ThrownError(origin, message) ==
  ThrownValue(origin, TRUE, Present(message), Absent, Absent, Absent, Absent,
              Absent, Absent)

\* a DOMException: an Error with the legacy numeric `code` property
ThrownDOMException(origin, message, code) ==
  ThrownValue(origin, TRUE, Present(message), Present(code), Absent, Absent,
              Absent, Absent, Absent)

\* what a rejected fetch of the executor rejects with: `await fetch(...)` has
\* no try/catch, so retryFetch rejects with the same value
ExecutorCauses == {"network", "timeout", "cancel"}

FetchRejection(cause) ==
  CASE cause = "network" -> ThrownError("executor", "fetch failed")
    [] cause = "timeout" ->
         ThrownDOMException("executor",
                            "The operation was aborted due to timeout", "23")
    [] cause = "cancel" ->
         ThrownDOMException("executor", "This operation was aborted", "20")

\* the client between the tool and the executor either lets the rejection
\* through, or hands it to the tool as { error, response: undefined }, and
\* the tool's `createActionableError(response.status, ...)` reads a property
\* of undefined
ClientBehaviours == {"rethrows", "returns_error"}

ToolOnRejection(cause, client) ==
  IF client = "rethrows"
    THEN FetchRejection(cause)
    ELSE ThrownError("tool",
           "Cannot read properties of undefined (reading 'status')")

\* Array.prototype.join
RECURSIVE Join(_, _)
Join(parts, sep) ==
  IF Len(parts) = 0 THEN ""
  ELSE IF Len(parts) = 1 THEN parts[1]
  ELSE parts[1] \o sep \o Join(Tail(parts), sep)

\* .filter(Boolean) on an array of strings
FilterBoolean(lines) == SelectSeq(lines, LAMBDA l : l # "")

\* `error && typeof error === "object" && "code" in error`
CodeIn(error) == error.isObject /\ error.code # Absent

\* the lines of the ActionableError layout
ActionableLines(e) ==
  <<"Error: " \o Render(e.error),
    "Code: " \o Render(e.code),
    IF Truthy(e.field) THEN "Field: " \o e.field[1] ELSE "",
    "\nSuggestion: " \o Render(e.suggestion),
    IF Truthy(e.recovery_action)
      THEN "Recovery: " \o e.recovery_action[1] ELSE "",
    IF e.valid_values # Absent
      THEN "\nValid values: " \o Join(e.valid_values[1], ", ") ELSE "">>

\* the catch block of the handler
CatchBlock(error) ==
  IF CodeIn(error)
    THEN [isError |-> TRUE,
          text |-> Join(FilterBoolean(ActionableLines(error)), "\n")]
    ELSE [isError |-> TRUE,
          text |-> "Unexpected error: " \o
                     (IF error.instanceOfError THEN Render(error.message)
                      ELSE "[object Object]")]

NothingCaught == [origin |-> "none"]
NoReply == [isError |-> FALSE, text |-> ""]

HndIdle == [pc |-> "idle", name |-> "", thrown |-> NothingCaught,
            reply |-> NoReply]

Replied(error) ==
  hnd' = [hnd EXCEPT !.pc = "replied", !.thrown = error,
                     !.reply = CatchBlock(error)]

\* the handler is called and awaits executeTool(name, args || {})
CallTool ==
  /\ hnd.pc = "idle"
  /\ \E name \in ToolNames : hnd' = [hnd EXCEPT !.pc = "executing", !.name = name]
  /\ UNCHANGED <<cfg, req, cls, plan, upd>>

\* executeTool resolves: the result is returned as JSON text
ExecuteToolResolves ==
  /\ hnd.pc = "executing"
  /\ hnd.name # "no_such_tool"
  /\ hnd' = [hnd EXCEPT !.pc = "replied",
                        !.reply = [isError |-> FALSE, text |-> "{}"]]
  /\ UNCHANGED <<cfg, req, cls, plan, upd>>

\* the remote API answers with an error response: the tool throws the
\* classifier's ActionableError
ToolThrowsClassified ==
  /\ hnd.pc = "executing"
  /\ hnd.name # "no_such_tool"
  /\ \E st \in ErrorStatuses, e \in ErrorResponses, ctx \in RequestContexts :
       Replied(ThrownByClassifier(createActionableError(st, e, ctx)))
  /\ UNCHANGED <<cfg, req, cls, plan, upd>>

\* the executor raises: network failure, timeout or cancellation
ExecutorRaises ==
  /\ hnd.pc = "executing"
  /\ hnd.name # "no_such_tool"
  /\ \E cause \in ExecutorCauses, client \in ClientBehaviours :
       Replied(ToolOnRejection(cause, client))
  /\ UNCHANGED <<cfg, req, cls, plan, upd>>

\* `throw new Error(`Unknown tool: ${name}`)`
UnknownToolThrows ==
  /\ hnd.pc = "executing"
  /\ hnd.name = "no_such_tool"
  /\ Replied(ThrownError("dispatch", "Unknown tool: " \o hnd.name))
  /\ UNCHANGED <<cfg, req, cls, plan, upd>>

\* update_item without update_mask: `for (const field of update_mask)`
ToolThrowsTypeError ==
  /\ hnd.pc = "executing"
  /\ hnd.name = "update_item"
  /\ Replied(ThrownError("tool", "update_mask is not iterable"))
  /\ UNCHANGED <<cfg, req, cls, plan, upd>>

RequestIds == {1}

\* no call of the classifier is under way
ClsIdle ==
  [pc |-> "idle", status |-> 0,
   apiError |-> [error |-> [code |-> "", message |-> "", details |-> <<>>]],
   context |-> [operation |-> "", params |-> [list_id |-> Absent, item_id |-> Absent,
                                               template_id |-> Absent]],
   out |-> NoError]

\* DEFAULT_RETRY_CONFIG
DEFAULT_RETRY_CONFIG ==
  [maxRetries |-> 3, baseDelayMs |-> 1000, maxDelayMs |-> 4000,
   retryableStatuses |-> DEFAULT_RETRYABLE]

Init ==
  /\ cfg \in RetryConfigs
  /\ req \in [{1} -> {NewRequest(sig) : sig \in BOOLEAN}]
  /\ cls = ClsIdle
  /\ plan = PlanIdle
  /\ upd = UpdIdle
  /\ hnd = HndIdle

Next ==
  \E r \in RequestIds :
    \/ RetryFetchCalled(r)
    \/ FetchResolves(r)
    \/ FetchRejects(r)
    \/ SleepResolves(r)
    \/ CallerAborts(r)

Spec == Init /\ [][Next]_vars

\* the classifier alone, on every input of the bounded sets
InitClassify ==
  /\ cfg = DEFAULT_RETRY_CONFIG
  /\ req = <<>>
  /\ \E st \in ErrorStatuses, e \in ErrorResponses, ctx \in RequestContexts :
       cls = [pc |-> "ready", status |-> st, apiError |-> e, context |-> ctx,
              out |-> NoError]
  /\ plan = PlanIdle
  /\ upd = UpdIdle
  /\ hnd = HndIdle

NextClassify == Classify

SpecClassify == InitClassify /\ [][NextClassify]_vars

\* the planning tools, each on every argument record and instant of the
\* bounded sets
InitPlanning ==
  /\ cfg = DEFAULT_RETRY_CONFIG
  /\ req = <<>>
  /\ cls = ClsIdle
  /\ \E tool \in PlanningTools, now \in NowInstants :
       \E args \in ArgsOf(tool), world \in RemoteWorlds :
         plan = [NewPlan(tool, args, now) EXCEPT !.remote = world]
  /\ upd = UpdIdle
  /\ hnd = HndIdle

NextPlanning ==
  \/ ExecutePlanningTool
  \/ ListListsSucceeds
  \/ ListListsFails
  \/ ListItemsSucceeds
  \/ ListItemsFails
  \/ ScopedItemsSucceeds
  \/ ScopedItemsFails

SpecPlanning == InitPlanning /\ [][NextPlanning]_vars

\* the two masked updates, each on every argument object of the bounded set
InitUpdate ==
  /\ cfg = DEFAULT_RETRY_CONFIG
  /\ req = <<>>
  /\ cls = ClsIdle
  /\ plan = PlanIdle
  /\ \E tool \in UpdateTools, args \in UpdateArgs : upd = NewUpdate(tool, args)
  /\ hnd = HndIdle

NextUpdate ==
  \/ ExecuteUpdateItem
  \/ ExecuteUpdateRecurringTemplate
  \/ UpdateSucceeds
  \/ UpdateFails

SpecUpdate == InitUpdate /\ [][NextUpdate]_vars

\* one remote call of a tool from end to end: the executor's attempts, then
\* the tool's `if (error) throw createActionableError(response.status, ...)`
RemoteCallConfigs ==
  {c \in RetryConfigs : c.baseDelayMs <= 1 /\ c.maxDelayMs = 1}

\* error bodies of the final response
RemoteCallBodies ==
  [error : [code : RemoteCodes, message : {"something went wrong"},
            details : {<<>>, <<[field |-> "title", issue |-> "required field missing"]>>,
                       <<[field |-> "", issue |-> "missing"]>>}]]

RemoteCallContext ==
  [operation |-> "get_item",
   params |-> [list_id |-> Present("L1"), item_id |-> Present("I1"),
               template_id |-> Absent]]

\* the executor has resolved with a response that is not ok: the client hands
\* the tool its body as `error`, and the tool classifies it
ToolClassifiesEveryResponse ==
  /\ 1 \in DOMAIN req
  /\ req[1].response.defined
  /\ ~req[1].response.ok
  /\ \E e \in RemoteCallBodies :
       cls' = [pc |-> "done", status |-> req[1].response.status, apiError |-> e,
               context |-> RemoteCallContext,
               out |-> createActionableError(req[1].response.status, e,
                                             RemoteCallContext)]
  /\ UNCHANGED <<cfg, req, plan, upd, hnd>>

ToolClassifies ==
  /\ 1 \in DOMAIN req
  /\ req[1].pc = "returned"
  /\ req[1].result.defined
  /\ ~req[1].result.ok
  /\ cls.pc = "idle"
  /\ \E e \in RemoteCallBodies :
       cls' = [pc |-> "done", status |-> req[1].result.status, apiError |-> e,
               context |-> RemoteCallContext,
               out |-> createActionableError(req[1].result.status, e,
                                             RemoteCallContext)]
  /\ UNCHANGED <<cfg, req, plan, upd, hnd>>

InitRemoteCall ==
  /\ cfg \in RemoteCallConfigs
  /\ req \in [{1} -> {NewRequest(sig) : sig \in BOOLEAN}]
  /\ cls = ClsIdle
  /\ plan = PlanIdle
  /\ upd = UpdIdle
  /\ hnd = HndIdle

NextRemoteCall ==
  \/ \E r \in RequestIds :
       \/ RetryFetchCalled(r)
       \/ FetchResolves(r)
       \/ FetchRejects(r)
       \/ SleepResolves(r)
       \/ CallerAborts(r)
  \/ ToolClassifies

SpecRemoteCall == InitRemoteCall /\ [][NextRemoteCall]_vars

\* two logical requests running through retryFetch at the same time, under
\* the one retryConfig of the client
ConcurrentIds == {1, 2}

ConcurrentConfigs ==
  {c \in RetryConfigs : c.maxRetries \in {0, 1} /\ c.baseDelayMs \in {0, 1}
                          /\ c.maxDelayMs = 1
                          /\ c.retryableStatuses = DEFAULT_RETRYABLE}

InitConcurrent ==
  /\ cfg \in ConcurrentConfigs
  /\ req \in [ConcurrentIds -> {NewRequest(sig) : sig \in BOOLEAN}]
  /\ cls = ClsIdle
  /\ plan = PlanIdle
  /\ upd = UpdIdle
  /\ hnd = HndIdle

NextConcurrent ==
  \E r \in ConcurrentIds :
    \/ RetryFetchCalled(r)
    \/ FetchResolves(r)
    \/ FetchRejects(r)
    \/ SleepResolves(r)
    \/ CallerAborts(r)

SpecConcurrent == InitConcurrent /\ [][NextConcurrent]_vars

\* the tool-call handler, on every tool name and every outcome of executeTool
InitHandler ==
  /\ cfg = DEFAULT_RETRY_CONFIG
  /\ req = <<>>
  /\ cls = ClsIdle
  /\ plan = PlanIdle
  /\ upd = UpdIdle
  /\ hnd = HndIdle

NextHandler ==
  \/ CallTool
  \/ ExecuteToolResolves
  \/ ToolThrowsClassified
  \/ ExecutorRaises
  \/ UnknownToolThrows
  \/ ToolThrowsTypeError

SpecHandler == InitHandler /\ [][NextHandler]_vars


(***************************************************************************)
(* Properties of retryFetch                                                *)
(***************************************************************************)

EventsOfType(rec, t) == SelectSeq(rec.trace, LAMBDA e : e.type = t)

NumFetch(rec) == Len(EventsOfType(rec, "fetch"))

NumSleep(rec) == Len(EventsOfType(rec, "sleep"))

\* the index of the attempt that event k of the trace belongs to
AttemptOfEvent(rec, k) ==
  Len(SelectSeq(SubSeq(rec.trace, 1, k), LAMBDA e : e.type = "fetch")) - 1

IsOkStatus(s) == s >= 200 /\ s <= 299

\* every attempt made so far has ended, and ended with a retryable status
AllAttemptsRetryable(rec) ==
  /\ rec.pc # "fetching"
  /\ \A k \in 1..Len(rec.trace) :
       /\ rec.trace[k].type # "reject"
       /\ rec.trace[k].type = "response" =>
            rec.trace[k].status \in cfg.retryableStatuses

\* C1: with maxRetries = r >= 0 and every attempt answered by a retryable
\* status, retryFetch never throws, never makes more than r+1 fetch calls,
\* and when it is done it has made exactly r+1 fetch calls and resolved with
\* the last, still failing, response.
C1_RetryableExhaustsAllAttempts ==
  \A r \in DOMAIN req :
    (cfg.maxRetries >= 0 /\ AllAttemptsRetryable(req[r])) =>
      /\ req[r].pc # "thrown"
      /\ NumFetch(req[r]) <= cfg.maxRetries + 1
      /\ Done(req[r]) =>
           /\ req[r].pc = "returned"
           /\ NumFetch(req[r]) = cfg.maxRetries + 1
           /\ req[r].trace[Len(req[r].trace)].type = "response"
           /\ req[r].result = Response(req[r].trace[Len(req[r].trace)].status)
           /\ req[r].result.status \in cfg.retryableStatuses
           /\ ~req[r].result.ok

C1_Witness ==
  \E r \in DOMAIN req :
    /\ cfg.maxRetries = 2
    /\ AllAttemptsRetryable(req[r])
    /\ req[r].pc = "returned"
    /\ NumFetch(req[r]) = 3
    /\ req[r].result.status = 503

\* C2: a response that is ok, or whose status is not retryable, is the last
\* thing the request does: it is returned, and no fetch call and no sleep
\* follows it; when the first response is such a one, exactly one fetch call
\* was made, whatever maxRetries is.
C2_NonRetryableReturnedAtOnce ==
  \A r \in DOMAIN req :
    \A k \in 1..Len(req[r].trace) :
      (/\ req[r].trace[k].type = "response"
       /\ \/ IsOkStatus(req[r].trace[k].status)
          \/ req[r].trace[k].status \notin cfg.retryableStatuses) =>
        /\ k = Len(req[r].trace)
        /\ req[r].pc = "returned"
        /\ req[r].result = Response(req[r].trace[k].status)
        /\ AttemptOfEvent(req[r], k) = 0 => NumFetch(req[r]) = 1

C2_Witness ==
  \E r \in DOMAIN req :
    /\ cfg.maxRetries = 2
    /\ req[r].pc = "returned"
    /\ req[r].trace = <<FetchEvent, ResponseEvent(400)>>
    /\ req[r].result.status = 400

\* C3: a network failure of an attempt with index < maxRetries is retried,
\* so retryFetch throws a network failure only from its final attempt.
C3_NetworkFailureRetried ==
  \A r \in DOMAIN req :
    (req[r].pc = "thrown" /\ req[r].error = "network") =>
      req[r].attempt = cfg.maxRetries

\* C4: while a fetch is pending it can be ended by the timeout of the attempt
\* and, once the caller's signal has fired, is ended by that signal; an
\* attempt ended by either is the last thing the request does: the failure is
\* thrown, and no fetch call and no sleep follows.
C4_AbortedAttemptPropagates ==
  \A r \in DOMAIN req :
    /\ req[r].pc = "fetching" =>
         IF req[r].hasSignal /\ req[r].aborted
           THEN RejectCauses(req[r]) = {"abort"}
           ELSE "timeout" \in RejectCauses(req[r])
    /\ \A k \in 1..Len(req[r].trace) :
         (/\ req[r].trace[k].type = "reject"
          /\ req[r].trace[k].cause \in {"timeout", "abort"}) =>
           /\ k = Len(req[r].trace)
           /\ req[r].pc = "thrown"
           /\ req[r].error = req[r].trace[k].cause
           /\ req[r].trace[k].cause = "abort" => req[r].hasSignal

C4_Witness ==
  \E r \in DOMAIN req :
    /\ req[r].pc = "thrown"
    /\ req[r].error = "abort"
    /\ req[r].attempt = 1
    /\ cfg.maxRetries = 2

\* min(maxDelay, baseDelay * 2^i)
BackoffCap(i, c) == Min(c.maxDelayMs, c.baseDelayMs * Pow2(i))

\* C5: with baseDelay >= 0 and maxDelay >= 0, every delay calculateBackoff
\* can return for attempt i lies in [0, min(maxDelay, baseDelay * 2^i)], every
\* value below that minimum is a possible result, and every sleep of a
\* request lasts such a delay.
C5_BackoffRange ==
  /\ \A i \in 0..MaxRetries :
       /\ CalculateBackoff(i, cfg) \subseteq 0..BackoffCap(i, cfg)
       /\ 0..(BackoffCap(i, cfg) - 1) \subseteq CalculateBackoff(i, cfg)
  /\ \A r \in DOMAIN req :
       \A k \in 1..Len(req[r].trace) :
         req[r].trace[k].type = "sleep" =>
           /\ req[r].trace[k].delay >= 0
           /\ req[r].trace[k].delay <=
                BackoffCap(AttemptOfEvent(req[r], k), cfg)

C5_Witness ==
  \E r \in DOMAIN req :
    /\ req[r].pc = "sleeping"
    /\ req[r].attempt = 1
    /\ cfg.maxDelayMs < cfg.baseDelayMs * 2
    /\ req[r].trace[Len(req[r].trace)].delay = cfg.maxDelayMs
    /\ cfg.maxDelayMs > 0

\* C6: a sleep comes right after a response and right before the next fetch
\* call; with baseDelay = 0 there is no sleep; with baseDelay > 0 a finished
\* request (maxRetries >= 0, as the contract of the executor has it) has slept
\* once less than it has fetched, and the last thing it did is not a sleep.
C6_SleepOnlyBetweenAttempts ==
  \A r \in DOMAIN req :
    /\ \A k \in 1..Len(req[r].trace) :
         req[r].trace[k].type = "sleep" =>
           /\ k > 1
           /\ req[r].trace[k - 1].type = "response"
           /\ IF k = Len(req[r].trace)
                THEN req[r].pc = "sleeping"
                ELSE req[r].trace[k + 1].type = "fetch"
    /\ cfg.baseDelayMs = 0 => NumSleep(req[r]) = 0
    /\ (Done(req[r]) /\ cfg.maxRetries >= 0) =>
         /\ req[r].trace[Len(req[r].trace)].type # "sleep"
         /\ cfg.baseDelayMs > 0 => NumSleep(req[r]) = NumFetch(req[r]) - 1

C6_Witness ==
  \E r \in DOMAIN req :
    /\ Done(req[r])
    /\ cfg.baseDelayMs > 0
    /\ NumFetch(req[r]) = 3
    /\ NumSleep(req[r]) = 2

(***************************************************************************)
(* Properties of createActionableError                                     *)
(***************************************************************************)

ClsCode == cls.apiError.error.code
ClsMessage == cls.apiError.error.message
ClsField == FirstField(cls.apiError.error.details)

\* C7: for every status, remote code, message and details list the
\* classifier returns an ActionableError whose suggestion is not empty.
C7_ClassifierTotal ==
  cls.pc = "done" =>
    /\ DOMAIN cls.out =
         {"error", "code", "field", "suggestion", "recovery_action", "valid_values"}
    /\ cls.out.suggestion # ""
    /\ Len(cls.out.suggestion) > 0

C7_Witness ==
  /\ cls.pc = "done"
  /\ ClsCode = "RATE_LIMITED"
  /\ ClsMessage = ""
  /\ cls.apiError.error.details = <<>>
  /\ cls.out.suggestion = "An unexpected error occurred."

\* C8: the rules are applied in the order validation (VALIDATION_ERROR with a
\* field), NOT_FOUND, UNAUTHORIZED, CONFLICT, internal (INTERNAL_ERROR or
\* status >= 500), INVALID_REQUEST, fallback, and the result is the one of the
\* first rule that matches, whatever the later rules would give.
C8_DispatchOrder ==
  cls.pc = "done" =>
    IF ClsCode = "VALIDATION_ERROR" /\ ClsField # Absent /\ ClsField # Present("")
      THEN /\ cls.out.code = "VALIDATION_ERROR"
           /\ cls.out.field # Absent
           /\ cls.out.recovery_action # InternalRule.recovery_action
    ELSE IF ClsCode = "NOT_FOUND"
      THEN cls.out = NotFoundRule(ClsMessage, cls.context)
    ELSE IF ClsCode = "UNAUTHORIZED"
      THEN cls.out = UnauthorizedRule
    ELSE IF ClsCode = "CONFLICT"
      THEN cls.out = ConflictRule
    ELSE IF ClsCode = "INTERNAL_ERROR" \/ cls.status >= 500
      THEN cls.out = InternalRule
    ELSE IF ClsCode = "INVALID_REQUEST"
      THEN cls.out = InvalidRequestRule(ClsMessage)
    ELSE /\ cls.out.suggestion = "An unexpected error occurred."
         /\ cls.out.code \notin {"NOT_FOUND", "UNAUTHORIZED", "CONFLICT",
                                 "INTERNAL_ERROR", "INVALID_REQUEST"}

C8_Witness ==
  /\ cls.pc = "done"
  /\ cls.status >= 500
  /\ ClsCode = "NOT_FOUND"
  /\ cls.out.code = "NOT_FOUND"
  /\ cls.out.error = "List not found"

TaxonomyCodes ==
  {"VALIDATION_ERROR", "NOT_FOUND", "UNAUTHORIZED", "CONFLICT", "INTERNAL_ERROR",
   "INVALID_REQUEST", "UNKNOWN"}

\* C9 as stated: the code of every ActionableError returned is one of the
\* seven taxonomy codes, for every remote code.
C9_CodeInTaxonomy ==
  cls.pc = "done" => cls.out.code \in TaxonomyCodes

\* C9 as amended: the code returned is one of the seven taxonomy codes when
\* the remote code is one of them or is empty, or when the status is >= 500;
\* a remote code outside the taxonomy that comes with a status < 500 reaches
\* the fallback and is returned verbatim, and UNKNOWN stands in for an empty
\* remote code only.
C9_CodeInTaxonomyOrEchoed ==
  cls.pc = "done" =>
    /\ (ClsCode \in TaxonomyCodes \cup {""} \/ cls.status >= 500) =>
         cls.out.code \in TaxonomyCodes
    /\ cls.out.code \notin TaxonomyCodes =>
         /\ cls.out.code = ClsCode
         /\ cls.out.code # ""
         /\ cls.out.suggestion = "An unexpected error occurred."
    /\ cls.out.code = "UNKNOWN" => ClsCode \in {"", "UNKNOWN"}

C9_Witness ==
  /\ cls.pc = "done"
  /\ cls.status = 429
  /\ ClsCode = "RATE_LIMITED"
  /\ cls.out.code = "RATE_LIMITED"

(***************************************************************************)
(* Properties of executePlanningTool                                       *)
(***************************************************************************)

\* the tool runs without list_id: it fans out over the lists of the catalog
Unscoped == plan.tool \in PlanningTools /\ ~Truthy(plan.args.list_id)

WantedItems(id) ==
  KeptItems(plan.tool, plan.args, plan.now,
            MatchingItems(plan.remote.items[id],
                          FanOutItemsCall(plan.tool, plan.args, id)))

\* C11: when an unscoped planning tool returns, the items it has aggregated
\* hold every matching item of every list the remote catalog holds, also when
\* the catalog or a list is longer than one page.
C11_AggregatesEveryRemoteItem ==
  (Unscoped /\ plan.pc = "returned") =>
    \A i \in DOMAIN plan.remote.lists :
      LET wanted == WantedItems(plan.remote.lists[i].id)
      IN \A j \in DOMAIN wanted :
           \E k \in DOMAIN plan.allItems : plan.allItems[k] = wanted[j]

\* a may stand before b under the plannable-task rule: lower priority rank
\* first; within a rank the earlier due time first, and a task with a due time
\* before one without
InPlannableOrder(a, b) ==
  \/ PrioOf(a) < PrioOf(b)
  \/ /\ PrioOf(a) = PrioOf(b)
     /\ \/ ~Truthy(b.due_time)
        \/ /\ Truthy(a.due_time)
           /\ DateGetTime(a.due_time[1]) <= DateGetTime(b.due_time[1])

\* the sequence is in the order of the plannable-task rule
PlannableSorted(items) ==
  \A i, j \in DOMAIN items : i < j => InPlannableOrder(items[i], items[j])

\* C12: the items unscoped get_plannable_tasks returns are in the order of
\* the plannable-task rule: priority rank ascending (missing priority counts
\* as medium), then due time ascending, tasks with a due time before tasks of
\* the same priority without one.
C12_PlannableOrder ==
  (Unscoped /\ plan.tool = "get_plannable_tasks" /\ plan.pc = "returned") =>
    PlannableSorted(plan.result.items)

\* merged as [medium, urgent with due, low, medium with due, high with due] and
\* returned as [urgent, high, medium with due, medium, low]
C12_Witness ==
  /\ Unscoped /\ plan.tool = "get_plannable_tasks" /\ plan.pc = "returned"
  /\ [i \in DOMAIN plan.allItems |-> plan.allItems[i].id] = <<"e", "d", "a", "c", "b">>
  /\ [i \in DOMAIN plan.result.items |-> plan.result.items[i].id]
       = <<"d", "b", "c", "e", "a">>

\* C13: unscoped get_plannable_tasks returns the first min(max_items, n) items
\* of the sorted merged sequence of n items for every number max_items given
\* (a count: 0 or more), the first min(50, n) when none is given, and never
\* more than max_items.
C13_TruncatedToMaxItems ==
  (/\ Unscoped /\ plan.tool = "get_plannable_tasks" /\ plan.pc = "returned"
   /\ plan.args.max_items # Absent => plan.args.max_items[1] >= 0) =>
    LET sorted == ArraySort(plan.allItems, "plannable")
        limit == IF plan.args.max_items = Absent THEN 50 ELSE plan.args.max_items[1]
    IN /\ plan.result.items = SubSeq(sorted, 1, Min(limit, Len(sorted)))
       /\ plan.args.max_items # Absent =>
            Len(plan.result.items) <= plan.args.max_items[1]

\* the items the remote API has handed to the tool: the entries of the pages
\* that answered its listItems calls
RECURSIVE RetrievedUpTo(_)
RetrievedUpTo(k) ==
  IF k = 0 THEN <<>>
  ELSE RetrievedUpTo(k - 1) \o
         (IF plan.calls[k].op = "listItems" /\ plan.calls[k].outcome = "ok"
            THEN ResponseTo(plan.remote, plan.calls[k]).entries ELSE <<>>)

RetrievedItems == RetrievedUpTo(Len(plan.calls))

\* the set of the elements of a sequence
Range(seq) == {seq[i] : i \in DOMAIN seq}

\* the instant of the item's due time lies in the closed window [from, to]
DueWithin(item, from, to) ==
  /\ Truthy(item.due_time)
  /\ from <= DateGetTime(item.due_time[1])
  /\ DateGetTime(item.due_time[1]) <= to

\* C14: get_tasks_due_soon returns exactly the retrieved items whose due time
\* lies in the closed window [now, now + daysAhead], daysAhead being 7 when
\* not given; items without due time are not returned.
C14_DueSoonWindow ==
  (plan.tool = "get_tasks_due_soon" /\ plan.pc = "returned") =>
    LET daysAhead == IF plan.args.days_ahead = Absent THEN 7
                     ELSE plan.args.days_ahead[1]
    IN Range(plan.result.items) =
         {it \in Range(RetrievedItems) :
            DueWithin(it, plan.now, plan.now + daysAhead * MS_PER_DAY)}

\* the instant of the item's due time is strictly before now
DueBefore(item, now) ==
  Truthy(item.due_time) /\ DateGetTime(item.due_time[1]) < now

\* the due instants of the sequence ascend
DueAscending(items) ==
  \A i, j \in DOMAIN items :
    i < j => DateGetTime(items[i].due_time[1]) <= DateGetTime(items[j].due_time[1])

\* C15: get_overdue_tasks, scoped or not, returns exactly the retrieved items
\* whose due time is strictly before the now taken when the call started (not
\* those due at now or without due time), in ascending order of due time, and
\* all of them.
C15_OverdueExactly ==
  (plan.tool = "get_overdue_tasks" /\ plan.pc = "returned") =>
    LET overdue == SelectSeq(RetrievedItems, LAMBDA it : DueBefore(it, plan.now))
    IN /\ Range(plan.result.items) = Range(overdue)
       /\ Len(plan.result.items) = Len(overdue)
       /\ \A i \in DOMAIN plan.result.items : Truthy(plan.result.items[i].due_time)
       /\ DueAscending(plan.result.items)

\* the number of days the window of the tool spans from now
WindowDays ==
  IF plan.tool = "get_tasks_due_soon" THEN DaysAhead(plan.args) ELSE 7

\* C16: the string comparisons the overdue and due-soon filters make between a
\* due_time and the ISO strings of now and of the end of the window give what
\* the comparison of the instants gives, for due_time with or without
\* fractional seconds.
C16_StringOrderIsTimeOrder ==
  plan.tool \in {"get_overdue_tasks", "get_tasks_due_soon", "get_workload_summary"} =>
    \A it \in Range(RetrievedItems) :
      Truthy(it.due_time) =>
        LET due == it.due_time[1]
            end == plan.now + WindowDays * MS_PER_DAY
        IN /\ StrLess(due, ToISOString(plan.now)) <=> DateGetTime(due) < plan.now
           /\ StrGreaterEq(due, ToISOString(plan.now)) <=> DateGetTime(due) >= plan.now
           /\ StrLessEq(due, ToISOString(end)) <=> DateGetTime(due) <= end

\* C17: the items unscoped get_tasks_by_tag returns are in the order the
\* plannable-task rule gives for the same merged items: priority rank
\* ascending, then due time ascending, tasks with a due time before tasks of
\* the same priority without one.
C17_ByTagInPlannableOrder ==
  (Unscoped /\ plan.tool = "get_tasks_by_tag" /\ plan.pc = "returned") =>
    /\ plan.result.items = ArraySort(plan.allItems, "plannable")
    /\ PlannableSorted(plan.result.items)

MaxHours == 3   \* largest number of hours of a duration PT[n]H[n]M

\* a number below 100 as it is written in a duration
NumStr(n) == IF n < 10 THEN DigitChar(n) ELSE Pad2(n)

\* the minutes a duration of the form PT[n]H[n]M stands for (whole quarters of
\* an hour, whose hours the doubles of the code hold exactly); 0 for a
\* duration that is missing or of no such form
MinutesOfForm(duration) ==
  LET quarters == {0, 15, 30, 45}
      values ==
        IF duration = Absent THEN {}
        ELSE {60 * h + m : h \in {x \in 0..MaxHours : \E y \in quarters :
                                     duration[1] = "PT" \o NumStr(x) \o "H"
                                                     \o NumStr(y) \o "M"},
                           m \in {y \in quarters : \E x \in 0..MaxHours :
                                     duration[1] = "PT" \o NumStr(x) \o "H"
                                                     \o NumStr(y) \o "M"}}
             \cup {60 * h : h \in {x \in 0..MaxHours :
                                     duration[1] = "PT" \o NumStr(x) \o "H"}}
             \cup {m \in quarters : duration[1] = "PT" \o NumStr(m) \o "M"}
  IN IF values = {} THEN 0 ELSE CHOOSE v \in values : TRUE

\* the items get_workload_summary has aggregated
AggregatedItems == IF Unscoped THEN plan.allItems ELSE RetrievedItems

\* C18: total_hours of get_workload_summary is the sum, over the aggregated
\* items, of hours + minutes/60 of estimated_duration PT[n]H[n]M, rounded to
\* one decimal place; a missing or unparseable duration adds 0.
C18_TotalHours ==
  (plan.tool = "get_workload_summary" /\ plan.pc = "returned") =>
    LET minutes == SumSeq([i \in DOMAIN AggregatedItems |->
                             MinutesOfForm(AggregatedItems[i].estimated_duration)])
        tenths == plan.result.summary[1].total_hours
    IN /\ 6 * tenths - 3 <= minutes
       /\ minutes < 6 * tenths + 3
       /\ plan.result.summary[1].total_tasks = Len(AggregatedItems)

\* PT1H and PT30M and an item without duration give 1.5
C18_Witness ==
  /\ plan.tool = "get_workload_summary" /\ plan.pc = "returned"
  /\ [i \in DOMAIN AggregatedItems |-> AggregatedItems[i].estimated_duration]
       = <<Present("PT1H"), Absent, Present("PT30M")>>
  /\ plan.result.summary[1].total_hours = 15

(***************************************************************************)
(* Properties of update_item and update_recurring_template                 *)
(***************************************************************************)

\* the update tool has run up to its remote call or its failure
UpdateStarted == upd.tool \in UpdateTools /\ upd.pc # "ready"

\* update_mask is absent or an empty list
MaskEmpty == upd.args["update_mask"] \in {Absent, Present(<<>>)}

\* C19: update_item and update_recurring_template called with an update_mask
\* that is absent or empty fail before any remote call: no request is issued.
C19_EmptyMaskRejected ==
  (UpdateStarted /\ MaskEmpty) => (upd.calls = <<>> /\ upd.pc = "thrown")

\* the arguments that are no fields of the resource
NonFieldNames == {"list_id", "item_id", "template_id", "update_mask"}

\* the names the mask holds whose value in the arguments is defined
NamedAndDefined ==
  {n \in Range(upd.args["update_mask"][1]) :
     n \in DOMAIN upd.args /\ upd.args[n] # Absent}

\* the object the request carries has exactly the names of the set, each with
\* the value of the arguments
SendsExactly(names) ==
  /\ DOMAIN upd.calls[1].fields = names
  /\ \A n \in names : upd.calls[1].fields[n] = upd.args[n][1]

\* C20 as stated: the object sent holds exactly the fields named in
\* update_mask that have a defined value in the arguments, and list_id,
\* item_id, template_id and update_mask are never sent as fields.
C20_OnlyMaskedFieldsSent ==
  (UpdateStarted /\ upd.calls # <<>>) =>
    /\ SendsExactly(NamedAndDefined \ NonFieldNames)
    /\ DOMAIN upd.calls[1].fields \cap NonFieldNames = {}

\* C20: the object sent holds exactly the names in update_mask that have a
\* defined value in the arguments and are not taken out of the arguments by the
\* tool itself (list_id, update_mask, and item_id in update_item or
\* template_id in update_recurring_template); a field that is given but not
\* named in the mask is never sent.
C20_OnlyMaskedFieldsSentButRouting ==
  (UpdateStarted /\ upd.calls # <<>>) =>
    /\ SendsExactly(NamedAndDefined \ RoutingKeys(upd.tool))
    /\ \A n \in DOMAIN upd.calls[1].fields : n \in Range(upd.args["update_mask"][1])

\* update_item with title, status and template_id given and a mask naming
\* template_id and title: status is not sent, template_id is
C20_Witness ==
  /\ upd.tool = "update_item" /\ upd.pc = "updating"
  /\ upd.args["update_mask"] = Present(<<"template_id", "title">>)
  /\ upd.args["status"] = Present("done")
  /\ DOMAIN upd.calls[1].fields = {"template_id", "title"}


(***************************************************************************)
(* Properties of the tool-call handler                                     *)
(***************************************************************************)

StartsWith(str, prefix) ==
  Len(str) >= Len(prefix) /\ SubSeq(str, 1, Len(prefix)) = prefix

\* the handler has answered a failed call of executeTool
FailureReplied == hnd.pc = "replied" /\ hnd.thrown # NothingCaught

\* C21: every failure that reaches the caller carries the ActionableError
\* structure (error, code and suggestion are there), whether it comes from a
\* remote error response or from a network failure, a timeout or a
\* cancellation raised by the executor; the reply is never a bare error
\* string.
C21_FailureIsActionableError ==
  FailureReplied /\ hnd.thrown.origin \in {"classifier", "executor", "tool"} =>
    /\ hnd.reply.isError
    /\ hnd.thrown.error # Absent
    /\ hnd.thrown.code # Absent
    /\ hnd.thrown.suggestion # Absent
    /\ ~StartsWith(hnd.reply.text, "Unexpected error: ")

\* C30: the handler answers every thrown value with isError true, in the
\* ActionableError layout exactly when the value was produced by the
\* classifier, and as "Unexpected error: <message>" for every other value,
\* one that merely carries a code property included.
C30_LayoutOnlyForClassifier ==
  FailureReplied =>
    /\ hnd.reply.isError
    /\ StartsWith(hnd.reply.text, "Error: ") <=> hnd.thrown.origin = "classifier"
    /\ hnd.thrown.origin # "classifier" =>
         hnd.reply.text = "Unexpected error: " \o Render(hnd.thrown.message)

(***************************************************************************)
(* Properties of concurrent requests                                       *)
(***************************************************************************)

\* the responses of a request that made it go on to a further attempt: a
\* retryable status received before the last allowed attempt
RetryingResponses(rec) ==
  {k \in 1..Len(rec.trace) :
     /\ rec.trace[k].type = "response"
     /\ rec.trace[k].status \in cfg.retryableStatuses
     /\ AttemptOfEvent(rec, k) < cfg.maxRetries}

\* the number of fetch calls a request has made, from its own responses and
\* the config: one, and one more for each response that made it go on, the
\* last of them not yet while the backoff sleep runs
OwnAttempts(rec) ==
  IF rec.pc = "idle" THEN 0
  ELSE 1 + Cardinality(RetryingResponses(rec))
         - (IF rec.pc = "sleeping" THEN 1 ELSE 0)

\* C22: two requests running concurrently through retryFetch share no
\* mutable state: a step of one request leaves the record of the other
\* (attempt counter, pending sleep, responses) as it was, and the number of
\* fetch calls of each request is given by its own responses and the config.
C22_RequestsShareNoState ==
  [][\A r \in DOMAIN req :
       /\ req'[r] # req[r] => \A q \in DOMAIN req \ {r} : req'[q] = req[q]
       /\ NumFetch(req'[r]) = OwnAttempts(req'[r])]_vars

\* one request sleeps before its retry while the other has made both of its
\* attempts and is done
C22_Witness ==
  /\ DOMAIN req = ConcurrentIds
  /\ req[1].pc = "sleeping"
  /\ NumFetch(req[1]) = 1
  /\ req[2].pc = "returned"
  /\ NumFetch(req[2]) = 2

(***************************************************************************)
(* Properties of createActionableError: the single rules                   *)
(***************************************************************************)

\* the guidance a NOT_FOUND result gives, by its error text
NotFoundGuidance(kind, id) ==
  CASE kind = "list" ->
         /\ cls.out.error = "List not found"
         /\ cls.out.suggestion = "No list exists with ID '" \o Render(id) \o "'."
    [] kind = "item" ->
         /\ cls.out.error = "Item not found"
         /\ cls.out.suggestion =
              "No item exists with ID '" \o Render(id) \o "' in this list."
    [] kind = "template" ->
         /\ cls.out.error = "Recurring template not found"
         /\ cls.out.suggestion = "No template exists with ID '" \o Render(id) \o "'."
    [] kind = "generic" ->
         /\ cls.out.error = "Resource not found"
         /\ cls.out.suggestion = "The requested resource does not exist."

\* C23: for code NOT_FOUND the guidance follows the first of the substrings
\* "list", "item", "recurring template" (case-sensitive, in this order) that
\* occurs in the message, with the id of that kind from the context, and is
\* the generic not-found guidance when none occurs.
C23_NotFoundGuidanceOrder ==
  (cls.pc = "done" /\ ClsCode = "NOT_FOUND") =>
    /\ cls.out.code = "NOT_FOUND"
    /\ Includes(ClsMessage, "list") =>
         NotFoundGuidance("list", cls.context.params.list_id)
    /\ (~Includes(ClsMessage, "list") /\ Includes(ClsMessage, "item")) =>
         NotFoundGuidance("item", cls.context.params.item_id)
    /\ (~Includes(ClsMessage, "list") /\ ~Includes(ClsMessage, "item")
          /\ Includes(ClsMessage, "recurring template")) =>
         NotFoundGuidance("template", cls.context.params.template_id)
    /\ (~Includes(ClsMessage, "list") /\ ~Includes(ClsMessage, "item")
          /\ ~Includes(ClsMessage, "recurring template")) =>
         NotFoundGuidance("generic", Absent)

\* a message that holds both "item" and "list" has got the list guidance
C23_Witness ==
  /\ cls.pc = "done"
  /\ ClsCode = "NOT_FOUND"
  /\ ClsMessage = "item not found in list"
  /\ cls.out.error = "List not found"
  /\ cls.out.suggestion = "No list exists with ID 'L1'."

ClsIssue == FirstIssue(cls.apiError.error.details)

\* the (field, issue) pair an entry of the table stands for: its field, and
\* what follows the field and the colon in its key
PairOf(e) ==
  <<e.value.field[1],
    SubSeq(e.key, Len(e.value.field[1]) + 2, Len(e.key))>>

\* the entries of the table for the first detail of the error
TableEntriesFor(field, issue) ==
  {e \in validationErrors : PairOf(e) = <<field[1], Render(issue)>>}

\* C24: for code VALIDATION_ERROR with a field, the result has code
\* VALIDATION_ERROR and the field of the first detail; it is the table entry
\* of the (field, issue) pair if the table has one, and otherwise the generic
\* entry with the raw message as error and a suggestion naming the field and
\* the raw issue. Without a field the rule is not taken: the result has no
\* field and comes from the later rules.
C24_ValidationByFieldAndIssue ==
  (cls.pc = "done" /\ ClsCode = "VALIDATION_ERROR") =>
    IF Truthy(ClsField)
      THEN /\ cls.out.code = "VALIDATION_ERROR"
           /\ cls.out.field = ClsField
           /\ IF TableEntriesFor(ClsField, ClsIssue) # {}
                THEN cls.out \in {e.value : e \in TableEntriesFor(ClsField, ClsIssue)}
                ELSE /\ cls.out.error = ClsMessage
                     /\ cls.out.suggestion =
                          "Validation failed for field '" \o ClsField[1]
                            \o "': " \o Render(ClsIssue)
      ELSE /\ cls.out.field = Absent
           /\ cls.out \notin {e.value : e \in validationErrors}
           /\ cls.out.recovery_action # Present("Check the field value and format.")
           /\ cls.status >= 500 => cls.out.code = "INTERNAL_ERROR"
           /\ cls.status < 500 =>
                /\ cls.out.code = "VALIDATION_ERROR"
                /\ cls.out.error = FallbackRule(ClsCode, ClsMessage).error

\* the pair (title, required field missing) has got its table entry
C24_Witness ==
  /\ cls.pc = "done"
  /\ ClsCode = "VALIDATION_ERROR"
  /\ ClsField = Present("title")
  /\ ClsIssue = Present("required field missing")
  /\ cls.out.error = "Title is required"
  /\ cls.out.field = Present("title")

(***************************************************************************)
(* Properties of a remote call from end to end                             *)
(***************************************************************************)

\* every attempt of the request was answered, and with a retryable 5xx status
EveryAttemptRetryable5xx(rec) ==
  /\ NumFetch(rec) >= 1
  /\ \A k \in 1..Len(rec.trace) :
       /\ rec.trace[k].type # "reject"
       /\ rec.trace[k].type = "response" =>
            /\ rec.trace[k].status \in cfg.retryableStatuses
            /\ rec.trace[k].status >= 500

\* the remote codes whose rules come before the rule for server errors
CodesAheadOfInternal(e) ==
  \/ e.error.code \in {"NOT_FOUND", "UNAUTHORIZED", "CONFLICT"}
  \/ e.error.code = "VALIDATION_ERROR" /\ Truthy(FirstField(e.error.details))

\* C25: a remote call whose every attempt is answered with a retryable 5xx
\* status is classified once, only after the executor has made exactly
\* maxRetries+1 attempts and returned the last response; the result has code
\* INTERNAL_ERROR unless the body's code is NOT_FOUND, UNAUTHORIZED, CONFLICT,
\* or VALIDATION_ERROR with a field.
C25_RetriedThenClassifiedOnce ==
  [][(cls' # cls /\ EveryAttemptRetryable5xx(req[1])) =>
       /\ cls.pc = "idle"
       /\ cls'.pc = "done"
       /\ req' = req
       /\ req[1].pc = "returned"
       /\ NumFetch(req[1]) = cfg.maxRetries + 1
       /\ cls'.status = req[1].trace[Len(req[1].trace)].status
       /\ IF CodesAheadOfInternal(cls'.apiError)
            THEN cls'.out.code = cls'.apiError.error.code
            ELSE cls'.out.code = "INTERNAL_ERROR"]_vars

\* three attempts answered 503, 500, 503 with maxRetries 2, then classified
C25_Witness ==
  /\ cfg.maxRetries = 2
  /\ 1 \in DOMAIN req
  /\ EveryAttemptRetryable5xx(req[1])
  /\ NumFetch(req[1]) = 3
  /\ Len(EventsOfType(req[1], "response")) = 3
  /\ EventsOfType(req[1], "response")[2].status = 500
  /\ cls.pc = "done"
  /\ cls.apiError.error.code = "RATE_LIMITED"
  /\ cls.out.code = "INTERNAL_ERROR"

(***************************************************************************)
(* Properties of executePlanningTool: calls and workload summary           *)
(***************************************************************************)

\* C26: an unscoped planning tool issues its calls one after the other (only
\* the last call made can be pending), the first being the catalog retrieval
\* and the k-th after it the item retrieval of the k-th list of the catalog
\* response; when it returns without a failure it has made exactly one
\* catalog retrieval and one item retrieval per list.
C26_OneCatalogThenOnePerList ==
  (Unscoped /\ plan.pc # "ready") =>
    /\ Len(plan.calls) >= 1
    /\ plan.calls[1].op = "listLists"
    /\ \A k \in 1..(Len(plan.calls) - 1) : plan.calls[k].outcome = "ok"
    /\ Len(plan.calls) <= 1 + Len(plan.lists)
    /\ \A k \in 2..Len(plan.calls) :
         /\ plan.calls[k].op = "listItems"
         /\ plan.calls[k].list_id = plan.lists[k - 1].id
    /\ plan.pc = "returned" =>
         /\ Len(plan.calls) = 1 + Len(plan.lists)
         /\ plan.calls[Len(plan.calls)].outcome = "ok"

\* a returned fan-out over a catalog response of three lists: four calls
C26_Witness ==
  /\ Unscoped
  /\ plan.pc = "returned"
  /\ Len(plan.lists) = 3
  /\ Len(plan.calls) = 4
  /\ plan.calls[2].list_id # plan.calls[4].list_id

\* the number of places where tag t stands in the tags of the items
TagOccurrences(items, t) ==
  Cardinality({<<i, j>> \in (DOMAIN items) \X (1..2) :
                 j <= Len(items[i].tags) /\ items[i].tags[j] = t})

\* by_priority counts sum to total_tasks, and by_tag counts the occurrences of
\* each tag
SummaryCountsAgree(s, items) ==
  /\ s.by_priority["urgent"].count + s.by_priority["high"].count
       + s.by_priority["medium"].count + s.by_priority["low"].count = s.total_tasks
  /\ s.total_tasks = Len(items)
  /\ \A i \in DOMAIN items : \A j \in DOMAIN items[i].tags :
       items[i].tags[j] \in DOMAIN s.by_tag
  /\ \A t \in DOMAIN s.by_tag : s.by_tag[t].count = TagOccurrences(items, t)

\* C27: in a get_workload_summary result the by_priority counts sum to
\* total_tasks, by_tag counts the tag occurrences, no item is counted both as
\* overdue and as due this week, and every item whose due time is not after
\* now + 7 days is counted as one of the two.
C27_SummaryCounts ==
  (plan.tool = "get_workload_summary" /\ plan.pc = "returned") =>
    LET s == plan.result.summary[1]
        items == AggregatedItems
        withDue == {i \in DOMAIN items : Truthy(items[i].due_time)}
        upToWeek == {i \in withDue :
                       DateGetTime(items[i].due_time[1]) <= plan.now + 7 * MS_PER_DAY}
    IN /\ SummaryCountsAgree(s, items)
       /\ s.overdue_count + s.due_this_week_count <= Cardinality(withDue)
       /\ s.overdue_count + s.due_this_week_count >= Cardinality(upToWeek)

(***************************************************************************)
(* Properties of retryFetch: cancellation and the loop bounds              *)
(***************************************************************************)

\* what a request has done since the caller's signal fired
SinceAbort(rec) == SubSeq(rec.trace, rec.abortedAt + 1, Len(rec.trace))

TypesOf(events) == [k \in DOMAIN events |-> events[k].type]

\* C28: once the caller's signal has fired, retryFetch never resolves with a
\* response, starts no sleep and starts at most one fetch call, which fails
\* with the cancellation: a fire during an attempt fails that attempt, and a
\* fire during a sleep lets the sleep run to its end and fails the attempt
\* started after it.
C28_NoResponseAfterAbort ==
  \A r \in DOMAIN req :
    req[r].aborted =>
      /\ ~(req[r].pc = "returned" /\ req[r].result.defined)
      /\ TypesOf(SinceAbort(req[r])) \in
           {<<>>, <<"reject">>, <<"fetch">>, <<"fetch", "reject">>}
      /\ \A k \in DOMAIN SinceAbort(req[r]) :
           SinceAbort(req[r])[k].type = "reject" =>
             SinceAbort(req[r])[k].cause = "abort"
      /\ (req[r].abortedAt > 0 /\ req[r].trace[req[r].abortedAt].type = "fetch") =>
           /\ TypesOf(SinceAbort(req[r])) \in {<<>>, <<"reject">>}
           /\ req[r].pc \in {"fetching", "thrown"}
      /\ (req[r].abortedAt > 0 /\ req[r].trace[req[r].abortedAt].type = "sleep") =>
           /\ req[r].pc = "sleeping" <=> SinceAbort(req[r]) = <<>>
           /\ req[r].pc = "thrown" <=>
                TypesOf(SinceAbort(req[r])) = <<"fetch", "reject">>

\* the signal fired during the backoff sleep after the first attempt; the
\* second attempt was started after the sleep and failed
C28_Witness ==
  \E r \in DOMAIN req :
    /\ req[r].aborted
    /\ req[r].abortedAt = 3
    /\ req[r].trace[3].type = "sleep"
    /\ TypesOf(SinceAbort(req[r])) = <<"fetch", "reject">>
    /\ req[r].pc = "thrown"
    /\ req[r].error = "abort"

\* C29: for every maxRetries, a request that has resolved has made at least
\* one fetch call, and its result is the Response of its last fetch call: the
\* last event of the request is the response of that call.
C29_ResolvesWithLastResponse ==
  \A r \in DOMAIN req :
    req[r].pc = "returned" =>
      /\ NumFetch(req[r]) >= 1
      /\ req[r].result.defined
      /\ Len(req[r].trace) >= 2
      /\ req[r].trace[Len(req[r].trace)].type = "response"
      /\ req[r].trace[Len(req[r].trace) - 1].type = "fetch"
      /\ req[r].result = Response(req[r].trace[Len(req[r].trace)].status)

====
